---- MODULE Spec2Model ----
(***************************************************************************)
(* Course_crusader: the prerequisite parser                                *)
(* (coursecrusader/parsers/prerequisites.py).                              *)
(*                                                                         *)
(* A text is a sequence of one-character strings.  The regular expressions *)
(* of the parser are modelled on characters, with Python's leftmost,       *)
(* greedy, backtracking match order.  A call of PrerequisiteParser.parse   *)
(* is a small state machine over the locals of the method.                 *)
(*                                                                         *)
(* The other components have a specification each: the callers of one      *)
(* parser instance, extract_corequisites, the ChangeDetector and its file,  *)
(* Course.__post_init__, the two item pipelines (pipelines.py), the         *)
(* RefreshScheduler with its clock (refresh.py) and the ScraperRegistry     *)
(* (scrapers/registry.py).                                                 *)
(***************************************************************************)
EXTENDS Integers, Sequences, FiniteSets, TLC

(***************************************************************************)
(* Bounds of the model.                                                    *)
(***************************************************************************)
\* An input text is the concatenation of at most MaxTokens fragments.
MaxTokens == 4

(***************************************************************************)
(* Characters.                                                             *)
(***************************************************************************)
UpperSeq ==
  <<"A","B","C","D","E","F","G","H","I","J","K","L","M",
    "N","O","P","Q","R","S","T","U","V","W","X","Y","Z">>

LowerSeq ==
  <<"a","b","c","d","e","f","g","h","i","j","k","l","m",
    "n","o","p","q","r","s","t","u","v","w","x","y","z">>

UpperSet ==
  {"A","B","C","D","E","F","G","H","I","J","K","L","M",
   "N","O","P","Q","R","S","T","U","V","W","X","Y","Z"}

LowerSet ==
  {"a","b","c","d","e","f","g","h","i","j","k","l","m",
   "n","o","p","q","r","s","t","u","v","w","x","y","z"}

DigitSet == {"0","1","2","3","4","5","6","7","8","9"}

\* \s of the re module, on the characters of the model
SpaceSet == {" ", "\t", "\n"}

\* str.upper() and str.lower() on one character
UpperOf == [c \in LowerSet |-> UpperSeq[CHOOSE i \in DOMAIN LowerSeq : LowerSeq[i] = c]]

LowerOf == [c \in UpperSet |-> LowerSeq[CHOOSE i \in DOMAIN UpperSeq : UpperSeq[i] = c]]

ToUpper(c) == IF c \in LowerSet THEN UpperOf[c] ELSE c

ToLower(c) == IF c \in UpperSet THEN LowerOf[c] ELSE c

\* [A-Z] under re.IGNORECASE
LetterSet == UpperSet \cup LowerSet

IsLetter(c) == c \in LetterSet

\* \d
IsDigit(c) == c \in DigitSet

\* \s
IsSpace(c) == c \in SpaceSet

\* \w
WordSet == LetterSet \cup DigitSet \cup {"_"}

IsWordChar(c) == c \in WordSet

(***************************************************************************)
(* Strings.                                                                *)
(***************************************************************************)
\* a function on 1..n as a sequence value
AsSeq(f) == SubSeq(f, 1, Len(f))

Upper(s) == AsSeq([i \in 1..Len(s) |-> ToUpper(s[i])])

Lower(s) == AsSeq([i \in 1..Len(s) |-> ToLower(s[i])])

\* s[a..b] holds pat, starting at a
StartsAt(s, pat, a) ==
  /\ a + Len(pat) - 1 <= Len(s)
  /\ SubSeq(s, a, a + Len(pat) - 1) = pat

\* pat in s (pat is not empty)
Contains(s, pat) ==
  \E a \in 1..(Len(s) - Len(pat) + 1) :
     s[a] = pat[1] /\ SubSeq(s, a, a + Len(pat) - 1) = pat

\* the number of whitespace characters of s from index p on
RECURSIVE SpaceRun(_, _)
SpaceRun(s, p) ==
  IF p <= Len(s) /\ IsSpace(s[p]) THEN 1 + SpaceRun(s, p + 1) ELSE 0

\* the number of whitespace characters of s from index p back
RECURSIVE SpaceRunBack(_, _)
SpaceRunBack(s, p) ==
  IF p >= 1 /\ IsSpace(s[p]) THEN 1 + SpaceRunBack(s, p - 1) ELSE 0

\* str.strip()
Strip(s) ==
  LET lead == SpaceRun(s, 1)
  IN  IF lead = Len(s) THEN <<>>
      ELSE SubSeq(s, lead + 1, Len(s) - SpaceRunBack(s, Len(s)))

\* re.sub(r'\s+', ' ', s): every maximal run of whitespace becomes one space
CollapseSpaces(s) ==
  LET last == SelectSeq([i \in 1..Len(s) |-> i],
                        LAMBDA i : ~(IsSpace(s[i]) /\ i < Len(s) /\ IsSpace(s[i + 1])))
  IN  AsSeq([k \in 1..Len(last) |-> IF IsSpace(s[last[k]]) THEN " " ELSE s[last[k]]])

\* re.sub(r'[;,]\s*$', '', s): the leftmost ';' or ',' that only whitespace
\* follows, and that whitespace, are removed
StripTrailingPunct(s) ==
  LET hits == {i \in 1..Len(s) :
                 /\ s[i] \in {";", ","}
                 /\ \A j \in (i + 1)..Len(s) : IsSpace(s[j])}
  IN  IF hits = {} THEN s
      ELSE SubSeq(s, 1, (CHOOSE i \in hits : \A j \in hits : i <= j) - 1)

\* str.replace(pat, rep): leftmost, non-overlapping occurrences
RECURSIVE ReplaceFrom(_, _, _, _)
ReplaceFrom(s, i, pat, rep) ==
  IF i > Len(s) THEN <<>>
  ELSE IF StartsAt(s, pat, i)
       THEN rep \o ReplaceFrom(s, i + Len(pat), pat, rep)
       ELSE <<s[i]>> \o ReplaceFrom(s, i + 1, pat, rep)

Replace(s, pat, rep) == IF Contains(s, pat) THEN ReplaceFrom(s, 1, pat, rep) ELSE s

\* the connector words as the code writes them
AndWord == <<" ","a","n","d"," ">>

OrWord == <<" ","o","r"," ">>

AndUpper == <<" ","A","N","D"," ">>

OrUpper == <<" ","O","R"," ">>

\* PrerequisiteParser._clean_text
CleanText(raw) ==
  LET t1 == CollapseSpaces(Strip(raw))
      t2 == StripTrailingPunct(t1)
      t3 == Replace(t2, OrUpper, OrWord)
  IN  Replace(t3, AndUpper, AndWord)

(***************************************************************************)
(* Course codes: COURSE_PATTERN = \b([A-Z]{2,6})\s*(\d{3,4}[A-Z]?)\b,      *)
(* compiled with re.IGNORECASE.                                            *)
(***************************************************************************)
\* [A-Z]{2,6}
DeptMin == 2

DeptMax == 6

\* \d{3,4}
NumMin == 3

NumMax == 4

\* \b before index p (p = Len(s) + 1: at the end of s)
IsWordAt(s, k) == k >= 1 /\ k <= Len(s) /\ IsWordChar(s[k])

WordBoundary(s, p) == IsWordAt(s, p - 1) # IsWordAt(s, p)

\* the number of letters of s from index p on, counted up to max
RECURSIVE LetterRun(_, _, _)
LetterRun(s, p, max) ==
  IF max > 0 /\ p <= Len(s) /\ IsLetter(s[p]) THEN 1 + LetterRun(s, p + 1, max - 1) ELSE 0

\* The ways COURSE_PATTERN matches at index i: <<nl, ns, nd, no>> are the
\* numbers of department letters, blanks, digits and trailing letters.
CourseCandidates(s, i) ==
  IF ~(IsLetter(s[i]) /\ WordBoundary(s, i)) THEN {}
  ELSE
    LET run == LetterRun(s, i, DeptMax)
    IN
    {t \in UNION {UNION {UNION {{<<nl, ns, nd, no>> : no \in 0..1}
                                : nd \in NumMin..NumMax}
                         : ns \in 0..SpaceRun(s, i + nl)}
                  : nl \in DeptMin..run} :
       LET d == i + t[1] + t[2]
           e == d + t[3] + t[4] - 1
       IN  /\ e <= Len(s)
           /\ \A k \in d..(d + t[3] - 1) : IsDigit(s[k])
           /\ (t[4] = 1 => IsLetter(s[e]))
           /\ WordBoundary(s, e + 1)}

\* t comes before u in the order the greedy quantifiers are tried
Greedier(t, u) ==
  \/ t[1] > u[1]
  \/ t[1] = u[1] /\ t[2] > u[2]
  \/ t[1] = u[1] /\ t[2] = u[2] /\ t[3] > u[3]
  \/ t[1] = u[1] /\ t[2] = u[2] /\ t[3] = u[3] /\ t[4] >= u[4]

\* the match object at index i (ok = FALSE: no match starts at i)
CourseMatchAt(s, i) ==
  LET cands == CourseCandidates(s, i)
  IN  IF cands = {}
      THEN [ok |-> FALSE, end |-> 0, dept |-> <<>>, number |-> <<>>]
      ELSE LET t == CHOOSE x \in cands : \A y \in cands : Greedier(x, y)
               d == i + t[1] + t[2]
               e == d + t[3] + t[4] - 1
           IN  [ok |-> TRUE, end |-> e,
                dept |-> SubSeq(s, i, i + t[1] - 1),
                number |-> SubSeq(s, d, e)]

\* the match emitted as it is written in the text
CourseCode_AsWritten(m) == m.dept \o <<" ">> \o m.number

\* _extract_courses, lines 129-131: the normalised code of a match
CourseCode(m) == Upper(m.dept) \o <<" ">> \o Upper(m.number)

\* course_regex.finditer(text) and the loop of _extract_courses
RECURSIVE CoursesFrom(_, _)
CoursesFrom(s, i) ==
  IF i > Len(s) THEN <<>>
  ELSE LET m == CourseMatchAt(s, i)
       IN  IF m.ok
           THEN <<CourseCode(m)>> \o CoursesFrom(s, m.end + 1)
           ELSE CoursesFrom(s, i + 1)

\* PrerequisiteParser._extract_courses
ExtractCourses(s) == CoursesFrom(s, 1)

(***************************************************************************)
(* Qualitative requirements.                                               *)
(***************************************************************************)
NON_COURSE_KEYWORDS ==
  << <<"p","e","r","m","i","s","s","i","o","n"," ","o","f"," ","i","n","s","t","r","u","c","t","o","r">>,
     <<"i","n","s","t","r","u","c","t","o","r"," ","c","o","n","s","e","n","t">>,
     <<"d","e","p","a","r","t","m","e","n","t"," ","c","o","n","s","e","n","t">>,
     <<"i","n","s","t","r","u","c","t","o","r"," ","p","e","r","m","i","s","s","i","o","n">>,
     <<"j","u","n","i","o","r"," ","s","t","a","n","d","i","n","g">>,
     <<"s","e","n","i","o","r"," ","s","t","a","n","d","i","n","g">>,
     <<"s","o","p","h","o","m","o","r","e"," ","s","t","a","n","d","i","n","g">>,
     <<"f","r","e","s","h","m","a","n"," ","s","t","a","n","d","i","n","g">>,
     <<"g","r","a","d","u","a","t","e"," ","s","t","a","n","d","i","n","g">>,
     <<"a","d","m","i","s","s","i","o","n"," ","t","o">>,
     <<"m","i","n","i","m","u","m"," ","g","r","a","d","e">>,
     <<"g","r","a","d","e"," ","o","f">>,
     <<"g","p","a">>,
     <<"o","p","e","n"," ","o","n","l","y"," ","t","o">>,
     <<"r","e","s","t","r","i","c","t","e","d"," ","t","o">>,
     <<"m","a","j","o","r","s"," ","o","n","l","y">>,
     <<"c","o","n","c","u","r","r","e","n","t"," ","e","n","r","o","l","l","m","e","n","t">>,
     <<"c","o","n","s","e","n","t"," ","r","e","q","u","i","r","e","d">>,
     <<"d","e","p","a","r","t","m","e","n","t","a","l"," ","a","p","p","r","o","v","a","l">>,
     <<"b","y"," ","i","n","v","i","t","a","t","i","o","n">>,
     <<"a","u","d","i","t","i","o","n"," ","r","e","q","u","i","r","e","d">>,
     <<"p","o","r","t","f","o","l","i","o"," ","r","e","v","i","e","w">>,
     <<"p","r","e","r","e","q","u","i","s","i","t","e"," ","w","a","i","v","e","r">> >>

\* a keyword looked for only at the start of the text
ExtractNonCourseRequirements_Prefix(s) ==
  LET text_lower == Lower(s)
  IN  SelectSeq(NON_COURSE_KEYWORDS,
                LAMBDA kw : Len(kw) <= Len(s) /\ SubSeq(text_lower, 1, Len(kw)) = kw)

\* PrerequisiteParser._extract_non_course_requirements: the keywords found,
\* in the order of the vocabulary
ExtractNonCourseRequirements(s) ==
  LET text_lower == Lower(s)
  IN  SelectSeq(NON_COURSE_KEYWORDS, LAMBDA kw : Contains(text_lower, kw))

(***************************************************************************)
(* Trees.  A Python str leaf is Leaf(code); {"and": [...]} is              *)
(* Node("and", <<...>>); None is NoTree.                                   *)
(***************************************************************************)
Leaf(code) == [kind |-> "leaf", code |-> code, children |-> <<>>]

Node(op, children) == [kind |-> op, code |-> <<>>, children |-> children]

NoTree == [kind |-> "none", code |-> <<>>, children |-> <<>>]

\* a list of course codes as the children of a node
Leaves(courses) == AsSeq([i \in 1..Len(courses) |-> Leaf(courses[i])])

(***************************************************************************)
(* The structure of a prerequisite text.                                   *)
(***************************************************************************)
\* the index of the first ')' of s at or after index p (0: there is none)
RECURSIVE NextClose(_, _)
NextClose(s, p) ==
  IF p > Len(s) THEN 0
  ELSE IF s[p] = ")" THEN p ELSE NextClose(s, p + 1)

\* re.finditer(r'\(([^)]+)\)', text) from index i on: the matches, each with
\* the indices of its '(' and its ')'
RECURSIVE ParenMatchesFrom(_, _)
ParenMatchesFrom(s, i) ==
  IF i > Len(s) THEN <<>>
  ELSE LET c == NextClose(s, i + 1)
       IN  IF s[i] = "(" /\ c >= i + 2
           THEN <<[start |-> i, end |-> c]>> \o ParenMatchesFrom(s, c + 1)
           ELSE ParenMatchesFrom(s, i + 1)

ParenMatches(s) == ParenMatchesFrom(s, 1)

\* a bug a careless fallback would have: guess And even when both connectors occur
ParseComplex_Guess(text, courses) == Node("and", Leaves(courses))

\* PrerequisiteParser._parse_complex
ParseComplex(text, courses) ==
  LET text_lower == Lower(text)
  IN  IF Contains(text_lower, AndWord) /\ Contains(text_lower, OrWord)
      THEN NoTree
      ELSE Node("and", Leaves(courses))

\* the inner operator forgotten: every group is an And
ParenStruct_AlwaysAnd(paren_group) == Node("and", Leaves(ExtractCourses(paren_group)))

\* the group's node wrapped in one more node
ParenStruct_Wrapped(paren_group) ==
  LET paren_courses == ExtractCourses(paren_group)
  IN  Node("and", <<Node(IF Contains(Lower(paren_group), OrWord) THEN "or" ELSE "and",
                         Leaves(paren_courses))>>)

\* _parse_nested, lines 199-206: the node of the parenthesised group
ParenStruct(paren_group) ==
  LET paren_courses == ExtractCourses(paren_group)
  IN  IF Contains(Lower(paren_group), OrWord)
      THEN Node("or", Leaves(paren_courses))
      ELSE Node("and", Leaves(paren_courses))

\* the group put first instead of last
CombineNested_InnerFirst(text, outside_courses, paren_struct) ==
  LET all_parts == <<paren_struct>> \o Leaves(outside_courses)
  IN  IF Contains(Lower(text), AndWord) /\ Contains(text, <<"(">>)
      THEN Node("and", all_parts)
      ELSE IF Contains(Lower(text), OrWord)
           THEN Node("or", all_parts)
           ELSE paren_struct

\* _parse_nested, lines 211-219: the outside courses and the group combined
CombineNested(text, outside_courses, paren_struct) ==
  LET all_parts == Leaves(outside_courses) \o <<paren_struct>>
  IN  IF Contains(Lower(text), AndWord) /\ Contains(text, <<"(">>)
      THEN Node("and", all_parts)
      ELSE IF Contains(Lower(text), OrWord)
           THEN Node("or", all_parts)
           ELSE paren_struct

\* several groups handled by looking at the first one only
ParseNested_FirstGroup(text, courses) ==
  LET matches == ParenMatches(text)
  IN  IF matches = <<>> THEN ParseComplex(text, courses)
      ELSE LET paren_group  == SubSeq(text, matches[1].start + 1, matches[1].end - 1)
               before_paren == Strip(SubSeq(text, 1, matches[1].start - 1))
               after_paren  == Strip(SubSeq(text, matches[1].end + 1, Len(text)))
           IN  CombineNested(text,
                             ExtractCourses(before_paren \o <<" ">> \o after_paren),
                             ParenStruct(paren_group))

\* PrerequisiteParser._parse_nested
ParseNested(text, courses) ==
  LET matches == ParenMatches(text)
  IN  IF matches = <<>> THEN ParseComplex(text, courses)
      ELSE IF Len(matches) = 1
      THEN LET paren_group   == SubSeq(text, matches[1].start + 1, matches[1].end - 1)
               before_paren  == Strip(SubSeq(text, 1, matches[1].start - 1))
               after_paren   == Strip(SubSeq(text, matches[1].end + 1, Len(text)))
               paren_struct  == ParenStruct(paren_group)
               outside_courses == ExtractCourses(before_paren \o <<" ">> \o after_paren)
           IN  CombineNested(text, outside_courses, paren_struct)
      ELSE NoTree

\* 'or' taken for 'and'
DetermineStructure_OrAsAnd(text, courses) ==
  IF Contains(text, <<"(">>) THEN ParseNested(text, courses)
  ELSE IF Contains(Lower(text), AndWord) /\ Contains(Lower(text), OrWord)
       THEN ParseComplex(text, courses)
       ELSE Node("and", Leaves(courses))

\* a single course returned as it is, without the wrapper
DetermineStructure_BareLeaf(text, courses) ==
  LET text_lower == Lower(text)
      has_and    == Contains(text_lower, AndWord)
      has_or     == Contains(text_lower, OrWord)
  IN  IF Contains(text, <<"(">>) THEN ParseNested(text, courses)
      ELSE IF has_and /\ has_or THEN ParseComplex(text, courses)
      ELSE IF has_and THEN Node("and", Leaves(courses))
      ELSE IF has_or THEN Node("or", Leaves(courses))
      ELSE IF Len(courses) = 1 THEN Leaf(courses[1])
      ELSE Node("and", Leaves(courses))

\* PrerequisiteParser._determine_structure
DetermineStructure(text, courses) ==
  LET text_lower == Lower(text)
      has_and    == Contains(text_lower, AndWord)
      has_or     == Contains(text_lower, OrWord)
  IN  IF Contains(text, <<"(">>) THEN ParseNested(text, courses)
      ELSE IF has_and /\ has_or THEN ParseComplex(text, courses)
      ELSE IF has_and THEN Node("and", Leaves(courses))
      ELSE IF has_or THEN Node("or", Leaves(courses))
      ELSE IF Len(courses) = 1 THEN Node("and", Leaves(courses))
      ELSE Node("and", Leaves(courses))

(***************************************************************************)
(* The inputs: catalog text made of at most MaxTokens fragments, and a few  *)
(* literal texts.                                                          *)
(***************************************************************************)
Tokens ==
  { <<"C","S"," ","2","0","2","Q">>,
    <<" ","a","n","d"," ">>,
    <<" ","O","R"," ">>,
    <<"(">>,
    <<")">>,
    <<"m","a","1","0","1"," ","a","n","d"," ">>,
    <<"(","m","a","1","0","1"," ","o","r"," ","C","S"," ","2","0","2","Q",")">>,
    <<"(","m","a","1","0","1"," ","a","n","d"," ","g","p","a",")">> }

RECURSIVE Concat(_)
Concat(ts) == IF ts = <<>> THEN <<>> ELSE Head(ts) \o Concat(Tail(ts))

TokenSeqs == UNION {[1..n -> Tokens] : n \in 0..MaxTokens}

\* Texts that no sequence of fragments gives: blanks only, a comma-separated
\* list, trailing punctuation, a phrase broken by two blanks, a hyphenated
\* code, qualitative phrases alone and around course codes, a number after a
\* group.
CatalogTexts ==
  { <<" "," ","\t"," ">>,
    <<"C","S"," ","2","0","2","Q",","," ","m","a","1","0","1",","," ","g","p","a","1","0","1",";">>,
    <<"C","S"," ","2","0","2","Q",","," ","m","a","1","0","1",","," ">>,
    <<"j","u","n","i","o","r"," "," ","s","t","a","n","d","i","n","g">>,
    <<"C","S","-","2","0","2","Q">>,
    <<"g","p","a">>,
    <<"g","p","a"," ","a","n","d"," "," ","O","R"," ">>,
    <<"C","S"," ","2","0","2","Q","(","g","p","a",")">>,
    <<"C","S"," ","2","0","2","Q"," ","a","n","d"," ","(","g","p","a",")">>,
    <<"g","p","a"," ","C","S"," ","2","0","2","Q"," ","O","R"," ","m","a","1","0","1">>,
    <<"g","p","a","(","m","a","1","0","1"," ","o","r"," ","C","S"," ","2","0","2","Q",")","1","0","1">>,
    <<"a","n","d"," ","1","0","1">>,
    <<"a"," ","m","i","n","i","m","u","m"," ","g","p","a">> }

(***************************************************************************)
(* One call of PrerequisiteParser.parse(prereq_text).                      *)
(***************************************************************************)
VARIABLES
  prereq_text,      \* the argument of parse
  pc,               \* where the call is: "call", "cleaned", "extracted", "returned"
  text,             \* local: the cleaned text
  non_course_reqs,  \* local: the qualitative requirements found
  courses,          \* local: the course codes found
  result,           \* returned: the tree, or NoTree for None
  parsed,           \* returned: the confidence flag
  \* one parser instance used by several callers
  course_regex,     \* the field of the instance, set by __init__
  calls,            \* for each caller, the argument and the locals of its call
  returns,          \* the <<argument, tree, parsed>> of the calls that returned
  \* one call of extract_corequisites
  coreq_text,       \* the argument
  coreq_pc,         \* where the call is: "call", "searched", "returned"
  coreq_match,      \* local: the match object of re.search
  coreq_result,     \* returned: the list of course codes, or None
  \* the snapshot file and the ChangeDetector instances bound to it
  snapshot_file,    \* the JSON file: whether it exists, and what it holds
  detectors,        \* for each instance, whether it was created, and self.snapshots
  last_call,        \* the last call made on a detector
  \* the construction of one Course
  course_args,      \* the arguments of Course(...)
  course,           \* the fields of the Course once __post_init__ has run
  \* one DeduplicationPipeline instance
  seen_courses,     \* self.seen_courses
  dedup_calls,      \* the items handed to process_item so far, and what came of each
  \* one call of ValidationPipeline.process_item
  validation_call,  \* the item handed in and what came of it
  \* the ScraperRegistry class
  scrapers,         \* ScraperRegistry._scrapers, in insertion order
  registry_call,    \* the last call of a class method and what it gave
  \* a RefreshScheduler, its ChangeDetector and the catalog it watches
  now,              \* datetime.utcnow(), in hours
  catalog,          \* the digest of what the catalog url serves, or "failed"
  detector,         \* self.detector: the snapshots the instance holds
  stored_file,      \* the snapshot file of the detector
  refresh_call,     \* the last call on the scheduler or its detector and what it returned
  scrape_log        \* history: the stale report awaiting a scrape, the hour a scrape was recorded

vars == <<prereq_text, pc, text, non_course_reqs, courses, result, parsed,
          course_regex, calls, returns,
          coreq_text, coreq_pc, coreq_match, coreq_result,
          snapshot_file, detectors, last_call,
          course_args, course,
          seen_courses, dedup_calls,
          validation_call,
          scrapers, registry_call,
          now, catalog, detector, stored_file, refresh_call, scrape_log>>

\* what one call of parse reads and writes
parseVars == <<prereq_text, pc, text, non_course_reqs, courses, result, parsed>>

\* the parser instance and its callers
callsVars == <<course_regex, calls, returns>>

\* one call of extract_corequisites
coreqVars == <<coreq_text, coreq_pc, coreq_match, coreq_result>>

\* the snapshot file and its detectors
snapVars == <<snapshot_file, detectors, last_call>>

\* the construction of a Course
courseVars == <<course_args, course>>

\* a DeduplicationPipeline instance
dedupVars == <<seen_courses, dedup_calls>>

\* a call of ValidationPipeline.process_item
validationVars == <<validation_call>>

\* the ScraperRegistry class
registryVars == <<scrapers, registry_call>>

\* a RefreshScheduler and its detector
refreshVars == <<now, catalog, detector, stored_file, refresh_call, scrape_log>>

\* the components added after the parser and the snapshot file
laterVars == <<dedupVars, validationVars, registryVars, refreshVars>>

\* what the steps of parse, of the callers of one instance, and of
\* extract_corequisites leave alone
parseRest == <<callsVars, coreqVars, snapVars, courseVars, laterVars>>

callsRest == <<parseVars, coreqVars, snapVars, courseVars, laterVars>>

coreqRest == <<parseVars, callsVars, snapVars, courseVars, laterVars>>

snapRest == <<parseVars, callsVars, coreqVars, courseVars, laterVars>>

courseRest == <<parseVars, callsVars, coreqVars, snapVars, laterVars>>

earlierVars == <<parseVars, callsVars, coreqVars, snapVars, courseVars>>

dedupRest == <<earlierVars, validationVars, registryVars, refreshVars>>

validationRest == <<earlierVars, dedupVars, registryVars, refreshVars>>

registryRest == <<earlierVars, dedupVars, validationVars, refreshVars>>

refreshRest == <<earlierVars, dedupVars, validationVars, registryVars>>

\* self.course_regex = re.compile(self.COURSE_PATTERN, re.IGNORECASE)
CompiledPattern == "COURSE_PATTERN, re.IGNORECASE"

\* the callers of the shared instance
MaxCallers == 2

Callers == 1..MaxCallers

\* the locals of a caller that is not in a call
IdleCall ==
  [pc |-> "idle", prereq_text |-> <<>>, text |-> <<>>, non_course_reqs |-> <<>>,
   courses |-> <<>>, result |-> NoTree, parsed |-> FALSE]

\* no caller at work on the instance
CallsIdle ==
  /\ course_regex = CompiledPattern
  /\ calls = [c \in Callers |-> IdleCall]
  /\ returns = {}

\* extract_corequisites returns None or a list: a record of both cases
NoneList == [none |-> TRUE, list |-> <<>>]

SomeList(l) == [none |-> FALSE, list |-> l]

\* re.search found nothing
NoMatch == [ok |-> FALSE, group1 |-> <<>>]

\* no call of extract_corequisites under way
CoreqIdle ==
  /\ coreq_text = <<>>
  /\ coreq_pc = "idle"
  /\ coreq_match = NoMatch
  /\ coreq_result = NoneList

\* the universities whose catalogs are watched
Universities == {"TestU"}

\* the ChangeDetector instances alive at a time
MaxDetectors == 2

Detectors == 1..MaxDetectors

\* course_count is in 0..MaxCount
MaxCount == 1

\* the SHA256 digests the catalog pages can have
Hashes == {"h1", "h2"}

\* A CatalogSnapshot of a university, and the absence of one in a dict (the
\* time stamps last_checked and last_updated are left out: the clock is
\* outside the model).
NoSnapshot == [present |-> FALSE, content_hash |-> "", course_count |-> 0, notes |-> ""]

CatalogSnapshot(h, n, notes) ==
  [present |-> TRUE, content_hash |-> h, course_count |-> n, notes |-> notes]

\* self.snapshots = {}
NoSnapshots == [u \in Universities |-> NoSnapshot]

\* a detector that is not created yet
NoDetector == [alive |-> FALSE, snapshots |-> NoSnapshots]

NoCall == [op |-> "none", detector |-> 0, university |-> "", course_count |-> 0]

\* no snapshot file and no detector
SnapIdle ==
  /\ snapshot_file = [exists |-> FALSE, data |-> NoSnapshots]
  /\ detectors = [d \in Detectors |-> NoDetector]
  /\ last_call = NoCall

\* no Course under construction
NoArgs == [course_id |-> <<>>, level |-> "", last_updated |-> "None"]

NoCourse == [constructed |-> FALSE, course_id |-> <<>>, level |-> "", last_updated |-> "None"]

CourseIdle ==
  /\ course_args = NoArgs
  /\ course = NoCourse

\* a DeduplicationPipeline just constructed: self.seen_courses = set()
DedupIdle ==
  /\ seen_courses = {}
  /\ dedup_calls = <<>>

\* notes of a Course: None, or a text (a sequence of pieces)
NoNotes == [none |-> TRUE, text |-> <<>>]

NotesText(t) == [none |-> FALSE, text |-> t]

\* credits of a Course: the type of the value and how it is written
Credits(type, written) == [type |-> type, written |-> written]

\* no item
NoItem ==
  [is_course |-> FALSE, shape |-> "none", university |-> <<>>, course_id |-> <<>>,
   title |-> <<>>, description |-> <<>>, credits |-> Credits("NoneType", <<>>),
   level |-> <<>>, department |-> <<>>, notes |-> NoNotes]

NoValidation == [op |-> "none", item |-> NoItem, outcome |-> "none", returned |-> NoItem]

\* no call of ValidationPipeline.process_item made
ValidationIdle == validation_call = NoValidation

NoRegistryCall ==
  [op |-> "none", cls |-> "None", name |-> <<>>, raised |-> FALSE,
   returned |-> "None", names |-> <<>>]

\* _scrapers: Dict[str, Type[BaseCourseScraper]] = {}
RegistryIdle ==
  /\ scrapers = <<>>
  /\ registry_call = NoRegistryCall

\* A CatalogSnapshot with its time stamps, in hours of the clock, and the
\* absence of one in a dict
NoStamped ==
  [present |-> FALSE, content_hash |-> "", last_checked |-> 0, last_updated |-> 0,
   course_count |-> 0, notes |-> ""]

NoStampedSnapshots == [u \in Universities |-> NoStamped]

\* has_snapshot, stored_hash and since_check tell what the instance held when
\* the call was made and how old its last check was, kept whether the call
\* left the snapshots and the file as they were
NoRefreshCall ==
  [op |-> "none", university |-> "", force |-> FALSE, fetched |-> "",
   has_snapshot |-> FALSE, stored_hash |-> "", since_check |-> 0, kept |-> TRUE,
   has_changed |-> FALSE, reason |-> ""]

NoScrape == [stale_reported |-> FALSE, recorded_at |-> -1]

\* no scheduler at work
RefreshIdle ==
  /\ now = 0
  /\ catalog = "failed"
  /\ detector = [snapshots |-> NoStampedSnapshots]
  /\ stored_file = [exists |-> FALSE, data |-> NoStampedSnapshots]
  /\ refresh_call = NoRefreshCall
  /\ scrape_log = NoScrape

LaterIdle == DedupIdle /\ ValidationIdle /\ RegistryIdle /\ RefreshIdle

\* no call of parse under way
ParseIdle ==
  /\ prereq_text = <<>>
  /\ pc = "idle"
  /\ text = <<>>
  /\ non_course_reqs = <<>>
  /\ courses = <<>>
  /\ result = NoTree
  /\ parsed = FALSE

Init ==
  /\ \/ \E ts \in TokenSeqs : prereq_text = Concat(ts)
     \/ prereq_text \in CatalogTexts
  /\ pc = "call"
  /\ text = <<>>
  /\ non_course_reqs = <<>>
  /\ courses = <<>>
  /\ result = NoTree
  /\ parsed = FALSE
  /\ CallsIdle
  /\ CoreqIdle
  /\ SnapIdle
  /\ CourseIdle
  /\ LaterIdle

\* parse, lines 75-82: the empty check, _clean_text and the qualitative scan
ParseClean ==
  /\ pc = "call"
  /\ IF prereq_text = <<>> \/ Strip(prereq_text) = <<>>
     THEN /\ pc' = "returned"
          /\ result' = NoTree
          /\ parsed' = TRUE
          /\ UNCHANGED <<text, non_course_reqs>>
     ELSE /\ pc' = "cleaned"
          /\ text' = CleanText(prereq_text)
          /\ non_course_reqs' = ExtractNonCourseRequirements(text')
          /\ UNCHANGED <<result, parsed>>
  /\ UNCHANGED <<prereq_text, courses>>
  /\ UNCHANGED parseRest

\* an exception raised when no course code is found, instead of a return
ParseExtract_Raise ==
  /\ pc = "cleaned"
  /\ courses' = ExtractCourses(text)
  /\ pc' = IF courses' = <<>> THEN "raised" ELSE "extracted"
  /\ UNCHANGED <<prereq_text, text, non_course_reqs, result, parsed>>
  /\ UNCHANGED parseRest

\* parse, lines 86-92: _extract_courses and the returns when it finds nothing
ParseExtract ==
  /\ pc = "cleaned"
  /\ courses' = ExtractCourses(text)
  /\ IF courses' = <<>>
     THEN /\ pc' = "returned"
          /\ result' = NoTree
          /\ parsed' = (non_course_reqs = <<>>)
     ELSE /\ pc' = "extracted"
          /\ UNCHANGED <<result, parsed>>
  /\ UNCHANGED <<prereq_text, text, non_course_reqs>>
  /\ UNCHANGED parseRest

\* the confidence flag set whatever the structure is
ParseStructure_AlwaysParsed ==
  /\ pc = "extracted"
  /\ result' = DetermineStructure(text, courses)
  /\ parsed' = TRUE
  /\ pc' = "returned"
  /\ UNCHANGED <<prereq_text, text, non_course_reqs, courses>>
  /\ UNCHANGED parseRest

\* a qualitative requirement taken as a reason to lower the confidence flag
ParseStructure_ReqsLowerFlag ==
  /\ pc = "extracted"
  /\ result' = DetermineStructure(text, courses)
  /\ parsed' = (result' # NoTree /\ non_course_reqs = <<>>)
  /\ pc' = "returned"
  /\ UNCHANGED <<prereq_text, text, non_course_reqs, courses>>
  /\ UNCHANGED parseRest

\* parse, lines 95-103: _determine_structure and the final return
ParseStructure ==
  /\ pc = "extracted"
  /\ result' = DetermineStructure(text, courses)
  /\ parsed' = (result' # NoTree)
  /\ pc' = "returned"
  /\ UNCHANGED <<prereq_text, text, non_course_reqs, courses>>
  /\ UNCHANGED parseRest

Next == ParseClean \/ ParseExtract \/ ParseStructure

Spec == Init /\ [][Next]_vars

(***************************************************************************)
(* One PrerequisiteParser instance and the calls of parse that several      *)
(* callers make on it, one after the other and interleaved.                *)
(***************************************************************************)
\* the texts the callers pass
CallTexts ==
  { <<>>,
    <<"C","S"," ","2","0","2","Q"," ","a","n","d"," ","m","a","1","0","1">>,
    <<"m","a","1","0","1"," ","O","R"," ","(","C","S"," ","2","0","2","Q"," ","a","n","d"," ","g","p","a",")">>,
    <<"g","p","a">> }

CallsInit ==
  /\ ParseIdle
  /\ CallsIdle
  /\ CoreqIdle
  /\ SnapIdle
  /\ CourseIdle
  /\ LaterIdle

\* caller c enters parse with the argument t
CallParse(c) ==
  /\ calls[c].pc \in {"idle", "returned"}
  /\ \E t \in CallTexts :
       calls' = [calls EXCEPT ![c] = [IdleCall EXCEPT !.pc = "call", !.prereq_text = t]]
  /\ UNCHANGED <<course_regex, returns>>
  /\ UNCHANGED callsRest

\* the call of c returns (tree, flag)
CallReturn(c, tree, flag) ==
  /\ calls' = [calls EXCEPT ![c].pc = "returned", ![c].result = tree, ![c].parsed = flag]
  /\ returns' = returns \cup {<<calls[c].prereq_text, tree, flag>>}

\* parse, lines 75-82, in the call of c
CallClean(c) ==
  /\ calls[c].pc = "call"
  /\ IF calls[c].prereq_text = <<>> \/ Strip(calls[c].prereq_text) = <<>>
     THEN CallReturn(c, NoTree, TRUE)
     ELSE LET cleaned == CleanText(calls[c].prereq_text)
          IN  /\ calls' = [calls EXCEPT ![c].pc = "cleaned",
                                        ![c].text = cleaned,
                                        ![c].non_course_reqs =
                                           ExtractNonCourseRequirements(cleaned)]
              /\ UNCHANGED returns
  /\ UNCHANGED course_regex
  /\ UNCHANGED callsRest

\* the course codes kept in a field of the instance, which every call in
\* flight then reads
CallExtract_Shared(c) ==
  /\ calls[c].pc = "cleaned"
  /\ LET found == ExtractCourses(calls[c].text)
     IN  IF found = <<>>
         THEN CallReturn(c, NoTree, calls[c].non_course_reqs = <<>>)
         ELSE /\ calls' = [d \in Callers |->
                            IF d = c THEN [calls[d] EXCEPT !.pc = "extracted", !.courses = found]
                            ELSE IF calls[d].pc = "extracted"
                                 THEN [calls[d] EXCEPT !.courses = found]
                                 ELSE calls[d]]
              /\ UNCHANGED returns
  /\ UNCHANGED course_regex
  /\ UNCHANGED callsRest

\* parse, lines 86-92, in the call of c
CallExtract(c) ==
  /\ calls[c].pc = "cleaned"
  /\ LET found == ExtractCourses(calls[c].text)
     IN  IF found = <<>>
         THEN CallReturn(c, NoTree, calls[c].non_course_reqs = <<>>)
         ELSE /\ calls' = [calls EXCEPT ![c].pc = "extracted", ![c].courses = found]
              /\ UNCHANGED returns
  /\ UNCHANGED course_regex
  /\ UNCHANGED callsRest

\* parse, lines 95-103, in the call of c
CallStructure(c) ==
  /\ calls[c].pc = "extracted"
  /\ LET structure == DetermineStructure(calls[c].text, calls[c].courses)
     IN  CallReturn(c, structure, structure # NoTree)
  /\ UNCHANGED course_regex
  /\ UNCHANGED callsRest

CallsNext ==
  \E c \in Callers :
     \/ CallParse(c)
     \/ CallClean(c)
     \/ CallExtract(c)
     \/ CallStructure(c)

CallsSpec == CallsInit /\ [][CallsNext]_vars

(***************************************************************************)
(* extract_corequisites: re.search of                                      *)
(* corequisite[s]?\s*:?\s*(.+?)(?:[.;]|$), compiled with re.IGNORECASE,     *)
(* then _extract_courses on group 1.                                       *)
(***************************************************************************)
CoreqKeyword == <<"c","o","r","e","q","u","i","s","i","t","e">>

\* the keyword is at index i of s, in any letter case
KeywordAt(s, i) ==
  /\ i + Len(CoreqKeyword) - 1 <= Len(s)
  /\ Lower(SubSeq(s, i, i + Len(CoreqKeyword) - 1)) = CoreqKeyword

\* $ at index e (without re.MULTILINE): the end of s, or before a last newline
AtDollar(s, e) == e = Len(s) + 1 \/ (e = Len(s) /\ s[e] = "\n")

\* The ways the pattern matches at index i: <<ns, w1, nc, w2, len>> are the
\* numbers of characters of [s]?, of the first \s*, of :?, of the second \s*
\* and of group 1.
CoreqCandidates(s, i) ==
  IF ~KeywordAt(s, i) THEN {}
  ELSE
    LET p0 == i + Len(CoreqKeyword)
        maxS == IF p0 <= Len(s) /\ s[p0] \in {"s", "S"} THEN 1 ELSE 0
    IN
    {t \in UNION {UNION {UNION {UNION {{<<ns, w1, nc, w2, len>>
                                           : len \in 1..(Len(s) - (p0 + ns + w1 + nc + w2) + 1)}
                                        : w2 \in 0..SpaceRun(s, p0 + ns + w1 + nc)}
                                 : nc \in 0..(IF p0 + ns + w1 <= Len(s) /\ s[p0 + ns + w1] = ":"
                                              THEN 1 ELSE 0)}
                          : w1 \in 0..SpaceRun(s, p0 + ns)}
                   : ns \in 0..maxS} :
       LET g == p0 + t[1] + t[2] + t[3] + t[4]
           e == g + t[5]
       IN  /\ \A k \in g..(e - 1) : s[k] # "\n"
           /\ \/ e <= Len(s) /\ s[e] \in {".", ";"}
              \/ AtDollar(s, e)}

\* t comes before u in the order the quantifiers are tried: the greedy ones
\* longest first, the lazy group shortest first
CoreqPreferred(t, u) ==
  \/ t[1] > u[1]
  \/ t[1] = u[1] /\ t[2] > u[2]
  \/ t[1] = u[1] /\ t[2] = u[2] /\ t[3] > u[3]
  \/ t[1] = u[1] /\ t[2] = u[2] /\ t[3] = u[3] /\ t[4] > u[4]
  \/ t[1] = u[1] /\ t[2] = u[2] /\ t[3] = u[3] /\ t[4] = u[4] /\ t[5] <= u[5]

\* re.search(coreq_pattern, text, re.IGNORECASE): the leftmost match
CoreqSearch(s) ==
  LET starts == {i \in 1..Len(s) : CoreqCandidates(s, i) # {}}
  IN  IF starts = {} THEN NoMatch
      ELSE LET i == CHOOSE a \in starts : \A b \in starts : a <= b
               cands == CoreqCandidates(s, i)
               t == CHOOSE x \in cands : \A y \in cands : CoreqPreferred(x, y)
               g == i + Len(CoreqKeyword) + t[1] + t[2] + t[3] + t[4]
           IN  [ok |-> TRUE, group1 |-> SubSeq(s, g, g + t[5] - 1)]

\* the fragments of the texts passed to extract_corequisites
CoreqTokens ==
  { <<"C","o","r","e","q","u","i","s","i","t","e","s",":"," ">>,
    <<"c","o","r","e","q","u","i","s","i","t","e">>,
    <<"C","S"," ","2","0","2","Q">>,
    <<"m","a","1","0","1"," ","a","n","d"," ">>,
    <<".">>,
    <<";"," ">>,
    <<"\n">>,
    <<" ">> }

CoreqTokenSeqs == UNION {[1..n -> CoreqTokens] : n \in 0..MaxTokens}

\* longer texts: codes before the keyword and after the terminator, a blank
\* before the colon and a last newline, a keyword with no code
CoreqTexts ==
  { <<"C","S"," ","3","0","3","."," ","C","o","r","e","q","u","i","s","i","t","e","s",":"," ","m","a","1","0","1"," ","a","n","d"," ","C","S"," ","2","0","2","Q",";"," ","C","S"," ","4","0","4",".">>,
    <<"C","O","R","E","Q","U","I","S","I","T","E"," ",":"," ","C","S"," ","2","0","2","Q","\n">>,
    <<"s","e","e"," ","c","o","r","e","q","u","i","s","i","t","e","s",".">> }

CoreqInit ==
  /\ \/ \E ts \in CoreqTokenSeqs : coreq_text = Concat(ts)
     \/ coreq_text \in CoreqTexts
  /\ coreq_pc = "call"
  /\ coreq_match = NoMatch
  /\ coreq_result = NoneList
  /\ ParseIdle
  /\ CallsIdle
  /\ SnapIdle
  /\ CourseIdle
  /\ LaterIdle

\* extract_corequisites, lines 248-253: the empty check and re.search
CoreqMatch ==
  /\ coreq_pc = "call"
  /\ IF coreq_text = <<>>
     THEN /\ coreq_pc' = "returned"
          /\ coreq_result' = NoneList
          /\ UNCHANGED coreq_match
     ELSE /\ coreq_pc' = "searched"
          /\ coreq_match' = CoreqSearch(coreq_text)
          /\ UNCHANGED coreq_result
  /\ UNCHANGED coreq_text
  /\ UNCHANGED coreqRest

\* extract_corequisites, lines 255-260: the course codes of group 1
CoreqReturn ==
  /\ coreq_pc = "searched"
  /\ coreq_pc' = "returned"
  /\ coreq_result' =
       IF coreq_match.ok
       THEN LET found == ExtractCourses(coreq_match.group1)
            IN  IF found = <<>> THEN NoneList ELSE SomeList(found)
       ELSE NoneList
  /\ UNCHANGED <<coreq_text, coreq_match>>
  /\ UNCHANGED coreqRest

CoreqNext == CoreqMatch \/ CoreqReturn

CoreqSpec == CoreqInit /\ [][CoreqNext]_vars

(***************************************************************************)
(* ChangeDetector (coursecrusader/refresh.py): the instances bound to one  *)
(* snapshot file.                                                          *)
(***************************************************************************)
SnapInit ==
  /\ SnapIdle
  /\ CourseIdle
  /\ ParseIdle
  /\ CallsIdle
  /\ CoreqIdle
  /\ LaterIdle

\* _save_snapshots: the file is written with the snapshots of the instance
SaveSnapshots(snapshots) == [exists |-> TRUE, data |-> snapshots]

\* _load_snapshots: the snapshots of the file, if the file exists
LoadSnapshots == IF snapshot_file.exists THEN snapshot_file.data ELSE NoSnapshots

\* ChangeDetector(snapshot_file): __init__ and _load_snapshots
NewDetector(d) ==
  /\ detectors' = [detectors EXCEPT ![d] = [alive |-> TRUE, snapshots |-> LoadSnapshots]]
  /\ last_call' = IF last_call.op = "update_snapshot"
                  THEN [last_call EXCEPT !.op = "created_after_update", !.detector = d]
                  ELSE [NoCall EXCEPT !.op = "created", !.detector = d]
  /\ UNCHANGED snapshot_file
  /\ UNCHANGED snapRest

\* check_for_changes(university, url, force) on instance d; fetched is what
\* _compute_content_hash returns ("failed" for None) and recent tells whether
\* the last check is less than one hour old
CheckForChanges(d, university, force, fetched, recent) ==
  /\ detectors[d].alive
  /\ LET previous == detectors[d].snapshots[university]
         store(snap) == [detectors[d].snapshots EXCEPT ![university] = snap]
     IN  IF fetched = "failed"
         THEN UNCHANGED <<snapshot_file, detectors>>
         ELSE IF ~previous.present
         THEN /\ detectors' = [detectors EXCEPT ![d].snapshots =
                                  store(CatalogSnapshot(fetched, 0, "Initial snapshot"))]
              /\ snapshot_file' = SaveSnapshots(detectors'[d].snapshots)
         ELSE IF ~force /\ recent
         THEN UNCHANGED <<snapshot_file, detectors>>
         ELSE IF fetched # previous.content_hash
         THEN /\ detectors' = [detectors EXCEPT ![d].snapshots =
                                  store([previous EXCEPT !.content_hash = fetched,
                                                         !.notes = "Catalog updated"])]
              /\ snapshot_file' = SaveSnapshots(detectors'[d].snapshots)
         ELSE /\ snapshot_file' = SaveSnapshots(detectors[d].snapshots)
              /\ UNCHANGED detectors
  /\ last_call' = [NoCall EXCEPT !.op = "check_for_changes", !.detector = d,
                                 !.university = university]
  /\ UNCHANGED snapRest

\* update_snapshot(university, course_count, notes) on instance d
UpdateSnapshot(d, university, course_count, notes) ==
  /\ detectors[d].alive
  /\ IF detectors[d].snapshots[university].present
     THEN /\ detectors' =
               [detectors EXCEPT ![d].snapshots[university] =
                  [@ EXCEPT !.course_count = course_count,
                            !.notes = IF notes # "" THEN notes ELSE @]]
          /\ snapshot_file' = SaveSnapshots(detectors'[d].snapshots)
     ELSE UNCHANGED <<snapshot_file, detectors>>
  /\ last_call' = [op |-> "update_snapshot", detector |-> d,
                   university |-> university, course_count |-> course_count]
  /\ UNCHANGED snapRest

\* get_snapshot(university) on instance d
GetSnapshot(d, university) == detectors[d].snapshots[university]

SnapNext ==
  \E d \in Detectors :
     \/ NewDetector(d)
     \/ \E u \in Universities, force \in BOOLEAN,
           fetched \in Hashes \cup {"failed"}, recent \in BOOLEAN :
           CheckForChanges(d, u, force, fetched, recent)
     \/ \E u \in Universities, n \in 0..MaxCount, notes \in {"", "Test"} :
           UpdateSnapshot(d, u, n, notes)

SnapSpec == SnapInit /\ [][SnapNext]_vars

(***************************************************************************)
(* Course (coursecrusader/models.py): what __post_init__ makes of the      *)
(* arguments of the constructor.                                           *)
(***************************************************************************)
\* re.sub(r'[-\s]+', ' ', s): every maximal run of hyphens and whitespace
\* becomes one space
IsSeparator(c) == c = "-" \/ IsSpace(c)

CollapseSeparators(s) ==
  LET last == SelectSeq([i \in 1..Len(s) |-> i],
                        LAMBDA i : ~(IsSeparator(s[i]) /\ i < Len(s) /\ IsSeparator(s[i + 1])))
  IN  AsSeq([k \in 1..Len(last) |-> IF IsSeparator(s[last[k]]) THEN " " ELSE s[last[k]]])

\* re.sub(r'([A-Z]+)(\d)', r'\1 \2', s), without re.IGNORECASE: a space is put
\* between an upper-case letter and the digit that follows it
RECURSIVE SplitLettersDigits(_)
SplitLettersDigits(s) ==
  IF Len(s) <= 1 THEN s
  ELSE IF s[1] \in UpperSet /\ IsDigit(s[2])
       THEN <<s[1], " ">> \o SplitLettersDigits(Tail(s))
       ELSE <<s[1]>> \o SplitLettersDigits(Tail(s))

\* the letters and the digits left as they are
NormalizeCourseId_NoSplit(course_id) ==
  Upper(CollapseSpaces(CollapseSeparators(Strip(course_id))))

\* Course._normalize_course_id
NormalizeCourseId(course_id) ==
  Upper(CollapseSpaces(SplitLettersDigits(CollapseSeparators(Strip(course_id)))))

valid_levels == {"Undergraduate", "Graduate", "Professional", "Unknown"}

\* the longest separator written between department and number
MaxSep == 3

Separators == UNION {[1..n -> {"-", " "}] : n \in 0..MaxSep}

Departments == { <<"C","S","E">>, <<"M","A","T","H">>, <<"c","s","e">> }

Numbers == { <<"2","1","0","0">>, <<"2","4","1","0","Q">> }

\* course_id arguments: a department, a separator and a number, and two
\* texts with blanks around and a tab
CourseIdArgs ==
  {d \o AsSeq(sep) \o n : d \in Departments, sep \in Separators, n \in Numbers}
    \cup { <<" "," ","C","S","E","\t","2","1","0","0"," ">>,
           <<"C","S","E"," ","-"," ","2","1","0","0">> }

CourseInit ==
  /\ course_args \in [course_id : CourseIdArgs,
                      level : {"Undergraduate", "Freshman"},
                      last_updated : {"None", "2024-01-01T00:00:00Z"}]
  /\ course = NoCourse
  /\ ParseIdle
  /\ CallsIdle
  /\ CoreqIdle
  /\ SnapIdle
  /\ LaterIdle

\* Course(...): the fields set from the arguments, then __post_init__
PostInit ==
  /\ ~course.constructed
  /\ course' = [constructed  |-> TRUE,
                course_id    |-> NormalizeCourseId(course_args.course_id),
                level        |-> IF course_args.level \notin valid_levels
                                 THEN "Unknown" ELSE course_args.level,
                last_updated |-> IF course_args.last_updated = "None"
                                 THEN "utcnow" ELSE course_args.last_updated]
  /\ UNCHANGED course_args
  /\ UNCHANGED courseRest

CourseNext == PostInit

CourseSpec == CourseInit /\ [][CourseNext]_vars

(***************************************************************************)
(* DeduplicationPipeline (coursecrusader/pipelines.py): one instance and   *)
(* the items handed to its process_item.                                   *)
(***************************************************************************)
\* the longest sequence of items handed to one pipeline instance
MaxItems == 3

\* The items: Course objects and dicts of two universities and two courses,
\* and a dict without 'course_id'. Only the fields the pipeline reads are kept;
\* "None" is what adapter.get gives for a key the dict lacks.
DedupItems ==
  [is_course : BOOLEAN, university : {"UConn", "MIT"},
   course_id : {"CSE 2100", "MATH 1131Q"}]
    \cup {[is_course |-> FALSE, university |-> "UConn", course_id |-> "None"]}

\* process_item, lines 68-73: the key of an item
ItemKey(item) == <<item.university, item.course_id>>

\* the key never remembered
DedupProcessItem_NoAdd(item) ==
  /\ Len(dedup_calls) < MaxItems
  /\ dedup_calls' = Append(dedup_calls,
                           [item |-> item,
                            outcome |-> IF ItemKey(item) \in seen_courses
                                        THEN "DropItem" ELSE "returned"])
  /\ UNCHANGED seen_courses
  /\ UNCHANGED dedupRest

\* DeduplicationPipeline.process_item(item, spider)
DedupProcessItem(item) ==
  /\ Len(dedup_calls) < MaxItems
  /\ LET key == ItemKey(item)
     IN  IF key \in seen_courses
         THEN /\ dedup_calls' = Append(dedup_calls, [item |-> item, outcome |-> "DropItem"])
              /\ UNCHANGED seen_courses
         ELSE /\ seen_courses' = seen_courses \cup {key}
              /\ dedup_calls' = Append(dedup_calls, [item |-> item, outcome |-> "returned"])
  /\ UNCHANGED dedupRest

DedupInit ==
  /\ DedupIdle
  /\ ParseIdle /\ CallsIdle /\ CoreqIdle /\ SnapIdle /\ CourseIdle
  /\ ValidationIdle /\ RegistryIdle /\ RefreshIdle

DedupNext == \E item \in DedupItems : DedupProcessItem(item)

DedupSpec == DedupInit /\ [][DedupNext]_vars

(***************************************************************************)
(* ValidationPipeline (coursecrusader/pipelines.py) and Course.validate    *)
(* (coursecrusader/models.py): one call of process_item on one item.       *)
(***************************************************************************)
\* re.match(r'^[A-Z]{2,6}\s*\d{3,4}[A-Z]?$', s); '$' also matches before a
\* newline that ends s
MatchesCourseIdFormat(s) ==
  \E d \in 2..6, w \in 0..Len(s), n \in 3..4, q \in 0..1 :
    LET e == d + w + n + q
    IN  /\ e = Len(s) \/ (e = Len(s) - 1 /\ s[Len(s)] = "\n")
        /\ \A i \in 1..d : s[i] \in UpperSet
        /\ \A i \in (d + 1)..(d + w) : IsSpace(s[i])
        /\ \A i \in (d + w + 1)..(d + w + n) : IsDigit(s[i])
        /\ q = 1 => s[e] \in UpperSet

\* re.match(r'^\d+(-\d+)?$', s)
MatchesCreditsFormat(s) ==
  \E a \in 1..Len(s), b \in 0..Len(s) :
    LET e == a + (IF b > 0 THEN 1 + b ELSE 0)
    IN  /\ e = Len(s) \/ (e = Len(s) - 1 /\ s[Len(s)] = "\n")
        /\ \A i \in 1..a : IsDigit(s[i])
        /\ b > 0 => (s[a + 1] = "-" /\ \A i \in (a + 2)..e : IsDigit(s[i]))

\* validate, line 102: not value or (isinstance(value, str) and not value.strip());
\* level is one of valid_levels once __post_init__ has run
FieldMissing(c, f) ==
  IF f = "credits"
  THEN \/ c.credits.type = "NoneType"
       \/ c.credits.type = "int" /\ c.credits.written = <<"0">>
       \/ c.credits.type = "str" /\ Strip(c.credits.written) = <<>>
  ELSE IF f = "level" THEN c.level = ""
  ELSE Strip(c[f]) = <<>>

\* f"Missing required field: {field_name}"
MissingMessage ==
  [university  |-> "Missing required field: university",
   course_id   |-> "Missing required field: course_id",
   title       |-> "Missing required field: title",
   description |-> "Missing required field: description",
   credits     |-> "Missing required field: credits",
   level       |-> "Missing required field: level",
   department  |-> "Missing required field: department"]

\* Course.validate: the error messages (the values they quote left out)
Validate(c) ==
  LET required == <<"university", "course_id", "title", "description",
                    "credits", "level", "department">>
      missing  == SelectSeq(required, LAMBDA f : FieldMissing(c, f))
  IN  [k \in 1..Len(missing) |-> MissingMessage[missing[k]]]
        \o (IF MatchesCourseIdFormat(c.course_id)
            THEN <<>> ELSE <<"Invalid course_id format">>)
        \o (IF c.credits.type = "str"
            THEN IF MatchesCreditsFormat(c.credits.written)
                 THEN <<>> ELSE <<"Invalid credits format">>
            ELSE IF c.credits.type \notin {"int", "float"}
                 THEN <<"Credits must be number or string">>
                 ELSE <<>>)

\* Course(**dict(adapter)): the fields set from the dict, then __post_init__
ConstructCourse(item) ==
  [item EXCEPT !.is_course = TRUE,
               !.course_id = NormalizeCourseId(item.course_id),
               !.level = IF item.level \notin valid_levels THEN "Unknown" ELSE item.level]

\* f"Validation warnings: {'; '.join(errors)}", as pieces of text
ValidationWarnings(errors) ==
  <<"Validation warnings: ">>
    \o [k \in 1..(2 * Len(errors) - 1) |->
          IF k % 2 = 1 THEN errors[(k + 1) \div 2] ELSE "; "]

\* course_id values as they are written in a catalog
RawCourseIds ==
  { <<"C","S","E"," ","2","1","0","0">>, <<"c","s","e","2","1","0","0">>,
    <<"C","S","E","-","2","1","0","0">>, <<>>, <<"I","n","t","r","o">> }

ItemTitles == { <<>>, <<" ">>, <<"D","S">> }

ItemCredits ==
  { Credits("int", <<"3">>), Credits("int", <<"0">>), Credits("str", <<"3">>),
    Credits("str", <<"3","-","4">>), Credits("str", <<"3",".","5">>),
    Credits("NoneType", <<>>) }

ItemNotes == { NoNotes, NotesText(<<>>), NotesText(<<"Lab fee">>) }

\* Course objects, as __post_init__ leaves them
CourseItems ==
  { [is_course |-> TRUE, shape |-> "complete", university |-> <<"U","C","o","n","n">>,
     course_id |-> NormalizeCourseId(id), title |-> t, description |-> <<"d">>,
     credits |-> c, level |-> "Undergraduate", department |-> <<"C","S","E">>,
     notes |-> n] :
       id \in RawCourseIds, t \in ItemTitles, c \in ItemCredits, n \in ItemNotes }

\* dicts with every field of a Course
CompleteDicts ==
  { [is_course |-> FALSE, shape |-> "complete", university |-> <<"U","C","o","n","n">>,
     course_id |-> id, title |-> t, description |-> <<"d">>,
     credits |-> c, level |-> l, department |-> <<"C","S","E">>,
     notes |-> n] :
       id \in RawCourseIds, t \in ItemTitles, c \in ItemCredits,
       l \in {"Undergraduate", "Freshman"}, n \in ItemNotes }

\* dicts Course(**...) refuses: a required key missing, a key that is no
\* field, and course_id = None (no .strip())
BrokenDicts ==
  { [NoItem EXCEPT !.shape = s] : s \in {"no_title", "extra_key", "course_id_None"} }

ValidationItems == CourseItems \cup CompleteDicts \cup BrokenDicts

\* ValidationPipeline.process_item(item, spider)
ValidationProcessItem(item) ==
  /\ validation_call.op = "none"
  /\ IF item.is_course
     THEN LET errors == Validate(item)
              noted  == IF errors = <<>> THEN item
                        ELSE IF ~item.notes.none /\ item.notes.text # <<>>
                        THEN [item EXCEPT !.notes =
                                NotesText(item.notes.text \o <<" | ">>
                                            \o ValidationWarnings(errors))]
                        ELSE [item EXCEPT !.notes = NotesText(ValidationWarnings(errors))]
          IN  validation_call' = [op |-> "process_item", item |-> item,
                                  outcome |-> "returned", returned |-> noted]
     ELSE IF item.shape # "complete"
     THEN validation_call' = [op |-> "process_item", item |-> item,
                              outcome |-> "DropItem", returned |-> NoItem]
     ELSE LET made   == ConstructCourse(item)
              errors == Validate(made)
              noted  == IF errors = <<>> THEN made
                        ELSE [made EXCEPT !.notes = NotesText(ValidationWarnings(errors))]
          IN  validation_call' = [op |-> "process_item", item |-> item,
                                  outcome |-> "returned", returned |-> noted]
  /\ UNCHANGED validationRest

ValidationInit ==
  /\ ValidationIdle
  /\ ParseIdle /\ CallsIdle /\ CoreqIdle /\ SnapIdle /\ CourseIdle
  /\ DedupIdle /\ RegistryIdle /\ RefreshIdle

ValidationNext == \E item \in ValidationItems : ValidationProcessItem(item)

ValidationSpec == ValidationInit /\ [][ValidationNext]_vars

(***************************************************************************)
(* RefreshScheduler and its ChangeDetector (coursecrusader/refresh.py),    *)
(* with the clock: time is counted in hours.                               *)
(***************************************************************************)
\* timedelta(hours=1) and timedelta(days=30)
OneHour == 1

ThirtyDays == 30 * 24

\* the clock moves by an hour or by thirty days, MaxTicks times at most
MaxTicks == 2

Ticks(t) == (t \div ThirtyDays) + (t % ThirtyDays)

\* check_for_changes on the snapshots snaps at hour t, fetched being what
\* _compute_content_hash returns ("failed" for None): the snapshots after the
\* call, whether _save_snapshots ran, and the pair returned
CheckOutcome(snaps, university, force, fetched, t) ==
  LET previous == snaps[university]
      out(snap, saved, has_changed, reason) ==
        [snapshots |-> [snaps EXCEPT ![university] = snap], saved |-> saved,
         has_changed |-> has_changed, reason |-> reason]
  IN  IF fetched = "failed"
      THEN out(previous, FALSE, FALSE, "Failed to fetch catalog")
      ELSE IF ~previous.present
      THEN out([present |-> TRUE, content_hash |-> fetched, last_checked |-> t,
                last_updated |-> t, course_count |-> 0, notes |-> "Initial snapshot"],
               TRUE, TRUE, "First snapshot - needs scraping")
      ELSE IF ~force /\ (t - previous.last_checked) < OneHour
      THEN out(previous, FALSE, FALSE, "Checked recently - skipping")
      ELSE IF fetched # previous.content_hash
      THEN out([previous EXCEPT !.last_checked = t, !.content_hash = fetched,
                                !.last_updated = t, !.notes = "Catalog updated"],
               TRUE, TRUE, "Catalog content changed")
      ELSE out([previous EXCEPT !.last_checked = t], TRUE, FALSE, "No changes detected")

\* the call recorded, with what the instance held before it
RefreshCall(op, university, force, has_changed, reason) ==
  [op |-> op, university |-> university, force |-> force, fetched |-> catalog,
   has_snapshot |-> detector.snapshots[university].present,
   stored_hash |-> detector.snapshots[university].content_hash,
   since_check |-> now - detector.snapshots[university].last_checked,
   kept |-> (detector' = detector /\ stored_file' = stored_file),
   has_changed |-> has_changed, reason |-> reason]

\* the outcome of a check applied to the instance and its file
ApplyCheck(o) ==
  /\ detector' = [snapshots |-> o.snapshots]
  /\ stored_file' = IF o.saved THEN [exists |-> TRUE, data |-> o.snapshots]
                    ELSE stored_file

\* time passes
Tick(delta) ==
  /\ Ticks(now) < MaxTicks
  /\ now' = now + delta
  /\ UNCHANGED <<catalog, detector, stored_file, refresh_call, scrape_log>>
  /\ UNCHANGED refreshRest

\* the catalog page is edited, or the site goes down or comes back
CatalogServes(h) ==
  /\ h # catalog
  /\ catalog' = h
  /\ scrape_log' = IF h = "failed" THEN scrape_log ELSE NoScrape
  /\ UNCHANGED <<now, detector, stored_file, refresh_call>>
  /\ UNCHANGED refreshRest

\* a failed fetch taken for an empty page: the digest of nothing is stored
RefreshCheckForChanges_FailedStored(university, force) ==
  LET o == CheckOutcome(detector.snapshots, university, force,
                        IF catalog = "failed" THEN "" ELSE catalog, now)
  IN  /\ ApplyCheck(o)
      /\ refresh_call' = RefreshCall("check_for_changes", university, force,
                                     o.has_changed, o.reason)
      /\ UNCHANGED <<now, catalog, scrape_log>>
      /\ UNCHANGED refreshRest

\* the new digest reported but not stored
RefreshCheckForChanges_HashNotStored(university, force) ==
  LET o == CheckOutcome(detector.snapshots, university, force, catalog, now)
      p == [o EXCEPT !.snapshots[university].content_hash =
                        IF detector.snapshots[university].present
                        THEN detector.snapshots[university].content_hash ELSE @]
  IN  /\ ApplyCheck(p)
      /\ refresh_call' = RefreshCall("check_for_changes", university, force,
                                     p.has_changed, p.reason)
      /\ UNCHANGED <<now, catalog, scrape_log>>
      /\ UNCHANGED refreshRest

\* ChangeDetector.check_for_changes(university, url, force)
RefreshCheckForChanges(university, force) ==
  LET o == CheckOutcome(detector.snapshots, university, force, catalog, now)
  IN  /\ ApplyCheck(o)
      /\ refresh_call' = RefreshCall("check_for_changes", university, force,
                                     o.has_changed, o.reason)
      /\ UNCHANGED <<now, catalog, scrape_log>>
      /\ UNCHANGED refreshRest

\* ChangeDetector.update_snapshot(university, course_count, notes)
RefreshUpdateSnapshot(university, course_count, notes) ==
  /\ IF detector.snapshots[university].present
     THEN /\ detector' = [detector EXCEPT !.snapshots[university] =
                            [@ EXCEPT !.course_count = course_count,
                                      !.notes = IF notes # "" THEN notes ELSE @]]
          /\ stored_file' = [exists |-> TRUE, data |-> detector'.snapshots]
     ELSE UNCHANGED <<detector, stored_file>>
  /\ refresh_call' = RefreshCall("update_snapshot", university, FALSE, FALSE, "")
  /\ scrape_log' = IF scrape_log.stale_reported
                   THEN [stale_reported |-> FALSE, recorded_at |-> now]
                   ELSE scrape_log
  /\ UNCHANGED <<now, catalog>>
  /\ UNCHANGED refreshRest

\* RefreshScheduler.should_refresh(university, url)
ShouldRefresh(university) ==
  LET snapshot == detector.snapshots[university]
  IN  /\ IF ~snapshot.present
         THEN /\ UNCHANGED <<detector, stored_file, scrape_log>>
              /\ refresh_call' = RefreshCall("should_refresh", university, FALSE,
                                             TRUE, "Never scraped before")
         ELSE IF now - snapshot.last_updated > ThirtyDays
         THEN /\ UNCHANGED <<detector, stored_file>>
              /\ refresh_call' = RefreshCall("should_refresh", university, FALSE,
                                             TRUE, "Stale data")
              /\ scrape_log' = IF scrape_log.recorded_at >= 0 THEN scrape_log
                               ELSE [scrape_log EXCEPT !.stale_reported = TRUE]
         ELSE LET o == CheckOutcome(detector.snapshots, university, FALSE, catalog, now)
              IN  /\ ApplyCheck(o)
                  /\ refresh_call' = RefreshCall("should_refresh", university, FALSE,
                                                 o.has_changed, o.reason)
                  /\ UNCHANGED scrape_log
      /\ UNCHANGED <<now, catalog>>
      /\ UNCHANGED refreshRest

RefreshInit ==
  /\ now = 0
  /\ catalog \in Hashes \cup {"failed"}
  /\ detector = [snapshots |-> NoStampedSnapshots]
  /\ stored_file = [exists |-> FALSE, data |-> NoStampedSnapshots]
  /\ refresh_call = NoRefreshCall
  /\ scrape_log = NoScrape
  /\ ParseIdle /\ CallsIdle /\ CoreqIdle /\ SnapIdle /\ CourseIdle
  /\ DedupIdle /\ ValidationIdle /\ RegistryIdle

RefreshNext ==
  \/ \E delta \in {OneHour, ThirtyDays} : Tick(delta)
  \/ \E h \in Hashes \cup {"failed"} : CatalogServes(h)
  \/ \E u \in Universities, force \in BOOLEAN : RefreshCheckForChanges(u, force)
  \/ \E u \in Universities, n \in 0..MaxCount, notes \in {"", "Automated refresh"} :
        RefreshUpdateSnapshot(u, n, notes)
  \/ \E u \in Universities : ShouldRefresh(u)

RefreshSpec == RefreshInit /\ [][RefreshNext]_vars

(***************************************************************************)
(* ScraperRegistry (coursecrusader/scrapers/registry.py): the class-level  *)
(* dict and the class methods.                                             *)
(***************************************************************************)
\* The classes handed to register: scrapers of three universities (two of
\* them with the same name), a scraper that keeps the name of the base class,
\* one with an empty name, and a class that is no scraper.
ScraperClasses ==
  { [id |-> "UConnScraper",      name |-> <<"u","c","o","n","n">>, is_scraper |-> TRUE],
    [id |-> "UConnPdfScraper",   name |-> <<"u","c","o","n","n">>, is_scraper |-> TRUE],
    [id |-> "MITScraper",        name |-> <<"M","I","T">>,         is_scraper |-> TRUE],
    [id |-> "YaleScraper",       name |-> <<"y","a","l","e">>,     is_scraper |-> TRUE],
    [id |-> "UnnamedScraper",    name |-> <<>>,                    is_scraper |-> TRUE],
    [id |-> "BaseCourseScraper",
     name |-> <<"b","a","s","e","_","s","c","r","a","p","e","r">>, is_scraper |-> TRUE],
    [id |-> "NotAScraper",       name |-> <<"o","t","h","e","r">>, is_scraper |-> FALSE] }

\* the names get is called with
ScraperNames == {c.name : c \in ScraperClasses} \cup { <<"m","i","t">> }

\* dict.get(key) on _scrapers: the class stored under key, or None
ScrapersGet(key) ==
  IF \E k \in 1..Len(scrapers) : scrapers[k].name = key
  THEN scrapers[CHOOSE k \in 1..Len(scrapers) : scrapers[k].name = key].cls
  ELSE "None"

\* cls._scrapers[name] = scraper_class: a new key goes last, a key already
\* there keeps its place
ScrapersSet(key, cls) ==
  IF \E k \in 1..Len(scrapers) : scrapers[k].name = key
  THEN [k \in 1..Len(scrapers) |->
          IF scrapers[k].name = key THEN [name |-> key, cls |-> cls] ELSE scrapers[k]]
  ELSE Append(scrapers, [name |-> key, cls |-> cls])

\* ScraperRegistry.register(scraper_class)
Register(c) ==
  /\ IF ~c.is_scraper \/ c.name = <<>>
          \/ c.name = <<"b","a","s","e","_","s","c","r","a","p","e","r">>
     THEN /\ registry_call' = [NoRegistryCall EXCEPT !.op = "register", !.cls = c.id,
                                                     !.name = c.name, !.raised = TRUE]
          /\ UNCHANGED scrapers
     ELSE /\ scrapers' = ScrapersSet(c.name, c.id)
          /\ registry_call' = [NoRegistryCall EXCEPT !.op = "register", !.cls = c.id,
                                                     !.name = c.name]
  /\ UNCHANGED registryRest

\* ScraperRegistry.get(name)
Get(name) ==
  /\ registry_call' = [NoRegistryCall EXCEPT !.op = "get", !.name = name,
                                             !.returned = ScrapersGet(Lower(name))]
  /\ UNCHANGED scrapers
  /\ UNCHANGED registryRest

\* ScraperRegistry.list_scrapers()
ListScrapers ==
  /\ registry_call' = [NoRegistryCall EXCEPT !.op = "list_scrapers",
                         !.names = [k \in 1..Len(scrapers) |-> scrapers[k].name]]
  /\ UNCHANGED scrapers
  /\ UNCHANGED registryRest

RegistryInit ==
  /\ RegistryIdle
  /\ ParseIdle /\ CallsIdle /\ CoreqIdle /\ SnapIdle /\ CourseIdle
  /\ DedupIdle /\ ValidationIdle /\ RefreshIdle

RegistryNext ==
  \/ \E c \in ScraperClasses : Register(c)
  \/ \E name \in ScraperNames : Get(name)
  \/ ListScrapers

RegistrySpec == RegistryInit /\ [][RegistryNext]_vars

(***************************************************************************)
(* Vocabulary of the properties.                                           *)
(***************************************************************************)
Returned == pc = "returned"

\* ' and ' / ' or ' occur in s, whatever the case of their letters
HasAndWord(s) == Contains(Lower(s), AndWord)

HasOrWord(s) == Contains(Lower(s), OrWord)

HasOpenParen(s) == \E i \in 1..Len(s) : s[i] = "("

HasParen(s) == \E i \in 1..Len(s) : s[i] \in {"(", ")"}

\* at least one phrase of the qualitative vocabulary occurs in s
HasQualitativePhrase(s) ==
  \E k \in DOMAIN NON_COURSE_KEYWORDS : Contains(Lower(s), NON_COURSE_KEYWORDS[k])

\* only blanks and punctuation
OnlyPunctuation(s) == \A i \in 1..Len(s) : ~IsWordChar(s[i])

\* the depth of parentheses after each character of s, from index i and depth d
RECURSIVE DepthsFrom(_, _, _)
DepthsFrom(s, i, d) ==
  IF i > Len(s) THEN <<>>
  ELSE LET e == IF s[i] = "(" THEN d + 1 ELSE IF s[i] = ")" THEN d - 1 ELSE d
       IN  <<e>> \o DepthsFrom(s, i + 1, e)

Depths(s) == DepthsFrom(s, 1, 0)

\* every ')' closes a '(' and every '(' is closed
Balanced(s) ==
  LET ds == Depths(s)
  IN  /\ \A i \in 1..Len(ds) : ds[i] >= 0
      /\ (Len(ds) > 0 => ds[Len(ds)] = 0)

\* a parenthesised group of s holds another one
NestedGroups(s) ==
  /\ HasOpenParen(s)
  /\ Balanced(s)
  /\ \E i \in 1..Len(s) : Depths(s)[i] >= 2

\* the indices at which a parenthesised group starts: a '(' , one or more
\* characters that are no parentheses, and a ')'
GroupStarts(s) ==
  {a \in 1..Len(s) :
     /\ s[a] = "("
     /\ \E b \in (a + 2)..Len(s) :
          /\ s[b] = ")"
          /\ \A k \in (a + 1)..(b - 1) : s[k] \notin {"(", ")"}}

\* the node a tree is made of are not empty
RECURSIVE NoEmptyNode(_)
NoEmptyNode(t) ==
  t.kind \in {"and", "or"} =>
    /\ Len(t.children) >= 1
    /\ \A i \in 1..Len(t.children) : NoEmptyNode(t.children[i])

\* the single parenthesised group the parser finds, and the text around it
TheGroup == ParenMatches(text)[1]

GroupText == SubSeq(text, TheGroup.start + 1, TheGroup.end - 1)

OutsideText ==
  Strip(SubSeq(text, 1, TheGroup.start - 1)) \o <<" ">>
    \o Strip(SubSeq(text, TheGroup.end + 1, Len(text)))

\* the node of the group in the returned tree: the last child of the
\* top-level node when a connector occurs in the text, else the tree itself
InnerNode ==
  IF HasAndWord(text) \/ HasOrWord(text)
  THEN result.children[Len(result.children)]
  ELSE result

OneGroupCase == Returned /\ courses # <<>> /\ Len(ParenMatches(text)) = 1

(***************************************************************************)
(* C1.  Conservative ambiguity.                                            *)
(***************************************************************************)
\* C1 as stated: whenever the cleaned text holds both ' and ' and ' or ' (in
\* any case) and no parenthesis, parse returns (None, False).
C1_AmbiguousAlwaysRefused ==
  (Returned /\ HasAndWord(text) /\ HasOrWord(text) /\ ~HasParen(text))
    => (result = NoTree /\ parsed = FALSE)

\* C1, amended: whenever at least one course code is extracted and the cleaned
\* text holds both ' and ' and ' or ' and no parenthesis, parse returns
\* (None, False).
C1_AmbiguousWithCoursesRefused ==
  (Returned /\ courses # <<>> /\ HasAndWord(text) /\ HasOrWord(text) /\ ~HasParen(text))
    => (result = NoTree /\ parsed = FALSE)

C1_Witness ==
  /\ Returned /\ Len(courses) >= 2
  /\ HasAndWord(text) /\ HasOrWord(text) /\ ~HasParen(text)
  /\ result = NoTree /\ parsed = FALSE

(***************************************************************************)
(* C2.  No And/Or node of a returned tree is empty.                        *)
(***************************************************************************)
\* C2: in every returned tree, every 'and' node and every 'or' node, at the
\* top or nested, has at least one child.
C2_NoEmptyNode == Returned => NoEmptyNode(result)

(***************************************************************************)
(* C3.  One connector kind, no '('.                                        *)
(***************************************************************************)
\* C3: with at least one course code, no '(' and exactly one of ' and ' and
\* ' or ' in the cleaned text, parse returns parsed = true and one node labelled
\* with that connector whose children are the extracted codes, in order.
C3_SingleConnector ==
  (/\ Returned /\ courses # <<>> /\ ~HasOpenParen(text)
   /\ HasAndWord(text) # HasOrWord(text))
    => /\ parsed = TRUE
       /\ result = Node(IF HasAndWord(text) THEN "and" ELSE "or", Leaves(courses))

C3_Witness ==
  /\ Returned /\ ~HasOpenParen(text) /\ HasOrWord(text) /\ ~HasAndWord(text)
  /\ Len(courses) = 2 /\ courses[1] # courses[2]
  /\ result.kind = "or" /\ parsed = TRUE

(***************************************************************************)
(* C4, C5.  One parenthesised group.                                       *)
(***************************************************************************)
\* C4: with at least one course code and exactly one parenthesised group, the
\* result is And(outside leaves, inner node) when ' and ' occurs anywhere in
\* the cleaned text, else Or(outside leaves, inner node) when ' or ' occurs,
\* else the inner node alone; parsed is true in the three cases.
C4_OneGroupShape ==
  OneGroupCase =>
    /\ parsed = TRUE
    /\ result.kind \in {"and", "or"}
    /\ Len(result.children) >= 1 \/ ~(HasAndWord(text) \/ HasOrWord(text))
    /\ InnerNode.kind \in {"and", "or"}
    /\ InnerNode.children = Leaves(ExtractCourses(GroupText))
    /\ (HasAndWord(text) \/ HasOrWord(text)) =>
         /\ result.kind = (IF HasAndWord(text) THEN "and" ELSE "or")
         /\ SubSeq(result.children, 1, Len(result.children) - 1)
              = Leaves(ExtractCourses(OutsideText))

C4_Witness ==
  /\ OneGroupCase /\ HasAndWord(text) /\ ~HasAndWord(GroupText)
  /\ result.kind = "and" /\ Len(result.children) = 2
  /\ result.children[1].kind = "leaf"
  /\ result.children[2].kind = "or" /\ Len(result.children[2].children) = 2

\* C5: in the one-group case the inner node is labelled 'or' exactly when
\* ' or ' occurs inside the parentheses, 'and' otherwise, and its children are
\* the course codes found inside the parentheses, in order.
C5_InnerNode ==
  OneGroupCase =>
    /\ result.kind \in {"and", "or"}
    /\ Len(result.children) >= 1 \/ ~(HasAndWord(text) \/ HasOrWord(text))
    /\ InnerNode.kind = (IF HasOrWord(GroupText) THEN "or" ELSE "and")
    /\ InnerNode.children = Leaves(ExtractCourses(GroupText))

C5_Witness ==
  /\ OneGroupCase /\ HasOrWord(GroupText)
  /\ InnerNode.kind = "or" /\ Len(InnerNode.children) = 2
  /\ InnerNode.children[1] # InnerNode.children[2]

(***************************************************************************)
(* C6, C7.  Groups inside groups, and several groups.                      *)
(***************************************************************************)
\* C6: when a parenthesised group of the text holds another parenthesised
\* group (and the text names a course), parse returns (None, False).
C6_NestedRefused ==
  (Returned /\ courses # <<>> /\ NestedGroups(text))
    => (result = NoTree /\ parsed = FALSE)

\* C7: with at least one course code and two or more parenthesised groups that
\* are not nested, parse returns (None, False).
C7_SeveralGroupsRefused ==
  (Returned /\ courses # <<>> /\ Cardinality(GroupStarts(text)) >= 2)
    => (result = NoTree /\ parsed = FALSE)

C7_Witness ==
  /\ Returned /\ courses # <<>> /\ Cardinality(GroupStarts(text)) >= 2
  /\ Balanced(text) /\ ~NestedGroups(text)
  /\ result = NoTree /\ parsed = FALSE

(***************************************************************************)
(* C8.  No connector, no '('.                                              *)
(***************************************************************************)
\* C8 as stated: with no '(' and neither ' and ' nor ' or ' in the cleaned
\* text, parse returns parsed = true and And(all extracted course codes) (read
\* in the claim's favour: no tree when there is no course code to put in it).
C8_NoConnectorAlwaysAnd ==
  (Returned /\ ~HasOpenParen(text) /\ ~HasAndWord(text) /\ ~HasOrWord(text))
    => /\ parsed = TRUE
       /\ result = (IF courses = <<>> THEN NoTree ELSE Node("and", Leaves(courses)))

\* C8, amended: with at least one course code, no '(' and neither ' and ' nor
\* ' or ' in the cleaned text, parse returns parsed = true and And(all extracted
\* course codes in order); one course gives the one-element And.
C8_NoConnectorWithCoursesAnd ==
  (/\ Returned /\ courses # <<>>
   /\ ~HasOpenParen(text) /\ ~HasAndWord(text) /\ ~HasOrWord(text))
    => (parsed = TRUE /\ result = Node("and", Leaves(courses)))

C8_Witness ==
  /\ Returned /\ Len(courses) = 3 /\ Contains(text, <<",">>)
  /\ ~HasOpenParen(text) /\ ~HasAndWord(text) /\ ~HasOrWord(text)
  /\ result.kind = "and" /\ Len(result.children) = 3 /\ parsed = TRUE

(***************************************************************************)
(* C9, C10.  The tree and the confidence flag.                             *)
(***************************************************************************)
\* C9: when no course code is found the tree is None, and parsed is false
\* exactly when the cleaned text holds a phrase of the qualitative vocabulary;
\* empty and punctuation-only input returns (None, True).
C9_NoCourses ==
  (Returned /\ courses = <<>>)
    => /\ result = NoTree
       /\ (parsed = FALSE) <=> HasQualitativePhrase(text)
       /\ OnlyPunctuation(prereq_text) => parsed = TRUE

C9_Witness ==
  /\ Returned /\ courses = <<>> /\ prereq_text # <<>>
  /\ HasQualitativePhrase(text)
  /\ result = NoTree /\ parsed = FALSE

\* C10: the tree is not None exactly when parsed is true and at least one
\* course code was extracted; so parsed = false comes with no tree, and a text
\* with a course code never returns (None, True).
C10_TreeIffConfident ==
  Returned => ((result # NoTree) <=> (parsed = TRUE /\ courses # <<>>))

C10_Witness ==
  /\ Returned /\ courses # <<>> /\ HasOpenParen(text)
  /\ result = NoTree /\ parsed = FALSE

(***************************************************************************)
(* C11, C12.  The leaves and the depth of a returned tree.                 *)
(***************************************************************************)
\* the course codes at the leaves of a tree, from left to right
RECURSIVE LeafCodes(_)
LeafCodes(t) ==
  IF t.kind = "leaf" THEN <<t.code>>
  ELSE Concat([i \in 1..Len(t.children) |-> LeafCodes(t.children[i])])

\* ^[A-Z]{2,6} \d{3,4}[A-Z]?$
Canonical(code) ==
  \E nl \in DeptMin..DeptMax, nd \in NumMin..NumMax, no \in 0..1 :
     /\ Len(code) = nl + 1 + nd + no
     /\ \A k \in 1..nl : code[k] \in UpperSet
     /\ code[nl + 1] = " "
     /\ \A k \in (nl + 2)..(nl + 1 + nd) : code[k] \in DigitSet
     /\ (no = 1 => code[Len(code)] \in UpperSet)

\* C11: every leaf of every returned tree is in canonical form: 2 to 6
\* upper-case letters, one space, 3 to 4 digits, and an optional trailing
\* upper-case letter.
C11_LeavesCanonical ==
  Returned =>
    LET leaves == LeafCodes(result)
    IN  \A k \in 1..Len(leaves) : Canonical(leaves[k])

\* a tree with a leaf that the text writes in lower case and without a blank
C11_Witness ==
  /\ Returned /\ result # NoTree
  /\ Contains(prereq_text, <<"m","a","1","0","1">>)
  /\ \E k \in 1..Len(LeafCodes(result)) :
        LeafCodes(result)[k] = <<"M","A"," ","1","0","1">>

\* every child of t is a leaf
FlatNode(t) ==
  /\ t.kind \in {"and", "or"}
  /\ \A i \in 1..Len(t.children) : t.children[i].kind = "leaf"

\* C12: a returned tree has nesting depth at most 2: the children of the
\* top-level node are leaves, except for at most one nested node, which is the
\* last child and whose children are all leaves.
C12_DepthAtMostTwo ==
  (Returned /\ result # NoTree) =>
    /\ result.kind \in {"and", "or"}
    /\ \A i \in 1..(Len(result.children) - 1) : result.children[i].kind = "leaf"
    /\ Len(result.children) >= 1 =>
         LET last == result.children[Len(result.children)]
         IN  last.kind = "leaf" \/ FlatNode(last)

\* an Or of a leaf and of a nested node
C12_Witness ==
  /\ Returned /\ result.kind = "or" /\ Len(result.children) = 2
  /\ result.children[1].kind = "leaf"
  /\ FlatNode(result.children[2]) /\ Len(result.children[2].children) = 2

(***************************************************************************)
(* C13.  parse returns for every text.                                     *)
(***************************************************************************)
\* a value parse may return as its tree
IsTree(t) ==
  \/ t = NoTree
  \/ /\ t.kind \in {"and", "or"}
     /\ \A i \in 1..Len(t.children) :
          t.children[i].kind \in {"leaf", "and", "or"}

\* C13: parse never raises for a string: a call is at one of its three steps
\* (each of which is defined for every text) or has returned, never anywhere
\* else, and what it returns is a (tree, parsed) pair; a text it cannot
\* structure is reported as (None, False).
C13_NeverRaises ==
  /\ pc \in {"call", "cleaned", "extracted", "returned"}
  /\ Returned => /\ IsTree(result)
                 /\ parsed \in BOOLEAN
                 /\ (parsed = FALSE => result = NoTree)

\* a call returned on a text with unbalanced parentheses and an empty pair
C13_Witness ==
  /\ Returned /\ courses # <<>>
  /\ ~Balanced(prereq_text) /\ Contains(prereq_text, <<"(", ")">>)

(***************************************************************************)
(* C14.  parse is a function of its argument.                              *)
(***************************************************************************)
\* C14: on one parser instance, whatever calls were made before and however
\* the calls of several callers interleave, the same text always returns the
\* same (tree, parsed) pair, and the state of the instance stays what
\* __init__ made it.
C14_PureFunction ==
  /\ course_regex = CompiledPattern
  /\ \A a \in returns, b \in returns : a[1] = b[1] => a = b
  /\ \A c \in Callers :
       calls[c].pc = "returned"
         => <<calls[c].prereq_text, calls[c].result, calls[c].parsed>> \in returns

\* two callers that passed the same text, one returned and one still in its
\* call, after calls on the three other texts
C14_Witness ==
  /\ calls[1].pc = "returned" /\ calls[1].result # NoTree
  /\ calls[2].pc = "extracted"
  /\ calls[2].prereq_text = calls[1].prereq_text
  /\ Cardinality(returns) >= 4

(***************************************************************************)
(* C15.  The separators of a course code.                                  *)
(***************************************************************************)
\* the call went through _extract_courses, or returned before it on an empty
\* text: courses holds what _extract_courses gives on the cleaned text
Extracted == pc \in {"extracted", "returned"}

\* the text with every hyphen written as a blank
Dehyphenated(s) == AsSeq([i \in 1..Len(s) |-> IF s[i] = "-" THEN " " ELSE s[i]])

\* C15: a course code is recognised whether department and number are
\* separated by a blank, by nothing or by a hyphen, in any letter case, and is
\* emitted as upper-case 'DEPT NUMBER' in order of appearance: the codes
\* extracted are canonical and are those of the text whose hyphens are read
\* as blanks, so 'CS-202Q' gives 'CS 202Q'.
C15_AnySeparator ==
  Extracted =>
    /\ \A k \in 1..Len(courses) : Canonical(courses[k])
    /\ courses = ExtractCourses(Dehyphenated(text))

(***************************************************************************)
(* C16.  Qualitative requirements and the result.                          *)
(***************************************************************************)
\* C16: when at least one course code is extracted, the (tree, parsed) pair
\* is what the course codes, the connectors and the parentheses of the
\* cleaned text give, whether or not a phrase of the vocabulary is detected.
C16_QualitativeIgnored ==
  (Returned /\ courses # <<>>)
    => /\ result = DetermineStructure(text, courses)
       /\ parsed = (result # NoTree)

\* a phrase is detected and the tree is returned with parsed = true
C16_Witness ==
  /\ Returned /\ Len(courses) >= 2 /\ non_course_reqs # <<>>
  /\ result.kind = "or" /\ parsed = TRUE

(***************************************************************************)
(* C17.  The corequisites of a text.                                       *)
(***************************************************************************)
\* the indices of s at which the keyword starts
KeywordStarts(s) == {i \in 1..Len(s) : KeywordAt(s, i)}

\* the index of the first '.' or ';' of s at or after index p (Len(s) + 1:
\* there is none)
RECURSIVE NextTerminator(_, _)
NextTerminator(s, p) ==
  IF p > Len(s) THEN Len(s) + 1
  ELSE IF s[p] \in {".", ";"} THEN p ELSE NextTerminator(s, p + 1)

\* the text between the first 'corequisite' or 'corequisites' of s and the
\* next '.' or ';', or the end of s
SpanAfterKeyword(s) ==
  LET i  == CHOOSE a \in KeywordStarts(s) : \A b \in KeywordStarts(s) : a <= b
      p0 == i + Len(CoreqKeyword)
      p1 == IF p0 <= Len(s) /\ s[p0] \in {"s", "S"} THEN p0 + 1 ELSE p0
  IN  SubSeq(s, p1, NextTerminator(s, p1) - 1)

\* C17: extract_corequisites returns, in order, exactly the course codes
\* between the first 'corequisite'/'corequisites' (in any case) and the next
\* '.' or ';' or the end of the text, and None when the keyword is absent or
\* that span holds no course code.
C17_CodesOfSpan ==
  coreq_pc = "returned" =>
    coreq_result =
      (IF KeywordStarts(coreq_text) = {} THEN NoneList
       ELSE LET found == ExtractCourses(SpanAfterKeyword(coreq_text))
            IN  IF found = <<>> THEN NoneList ELSE SomeList(found))

(***************************************************************************)
(* C18.  Snapshots persist across detector instances.                      *)
(***************************************************************************)
\* C18: after update_snapshot(u, course_count = n) on a detector bound to a
\* snapshot file, also for a university that has no snapshot yet, a detector
\* created next on the same file returns from get_snapshot(u) a snapshot of u
\* with course_count = n.
C18_SnapshotPersists ==
  last_call.op = "created_after_update" =>
    LET snapshot == GetSnapshot(last_call.detector, last_call.university)
    IN  snapshot.present /\ snapshot.course_count = last_call.course_count

(***************************************************************************)
(* C19.  The course_id of a Course.                                        *)
(***************************************************************************)
\* the separators of the claim: none, a hyphen, one or several spaces
ClaimSeparators == {<<>>, <<"-">>} \cup {[i \in 1..n |-> " "] : n \in 1..MaxSep}

\* C19: the spellings of an upper-case code that differ only in the separator
\* between department and number (none, a hyphen, one or several spaces) all
\* give the course_id 'DEPT NUMBER' with exactly one space.
C19_SeparatorsNormalised ==
  course.constructed =>
    \A d \in Departments, sep \in ClaimSeparators, n \in Numbers :
       (d = Upper(d) /\ course_args.course_id = d \o AsSeq(sep) \o n)
         => course.course_id = d \o <<" ">> \o n

\* 'MATH2410Q' became 'MATH 2410Q'
C19_Witness ==
  /\ course.constructed
  /\ course_args.course_id = <<"M","A","T","H","2","4","1","0","Q">>
  /\ course.course_id = <<"M","A","T","H"," ","2","4","1","0","Q">>

(***************************************************************************)
(* C20.  No course code is dropped.                                        *)
(***************************************************************************)
\* C20: whenever parse returns parsed = true and a tree, every course code
\* extracted from the cleaned text is a leaf of the tree, the codes written
\* outside a parenthesised group included when the text has no connector.
C20_NoCourseDropped ==
  (Returned /\ parsed = TRUE /\ result # NoTree)
    => LET leaves == LeafCodes(result)
       IN  \A k \in 1..Len(courses) : \E j \in 1..Len(leaves) : leaves[j] = courses[k]

(***************************************************************************)
(* C21.  The top-level operator of the one-group case.                     *)
(***************************************************************************)
\* the text left and right of the single parenthesised group
BeforeGroup == SubSeq(text, 1, TheGroup.start - 1)

AfterGroup == SubSeq(text, TheGroup.end + 1, Len(text))

\* C21: in the one-group case with a connector in the text, the top-level
\* operator is 'and' only if ' and ' occurs outside the parentheses; a text
\* whose only ' and ' is inside the group and that has ' or ' outside it
\* yields an 'or' node whose last child is the group's node.
C21_TopAndOnlyOutside ==
  (OneGroupCase /\ (HasAndWord(text) \/ HasOrWord(text)))
    => /\ result.kind = "and" => (HasAndWord(BeforeGroup) \/ HasAndWord(AfterGroup))
       /\ (/\ HasOrWord(BeforeGroup) \/ HasOrWord(AfterGroup)
           /\ ~(HasAndWord(BeforeGroup) \/ HasAndWord(AfterGroup)))
            => result.kind = "or"

(***************************************************************************)
(* C22.  ' or ' without ' and '.                                           *)
(***************************************************************************)
\* C22: with at least one course code, ' or ' in the cleaned text and no
\* ' and ', every tree parse returns has 'or' as its top-level operator, also
\* when the text holds a '(' and no parenthesised group is found.
C22_OrOnlyGivesOr ==
  (Returned /\ courses # <<>> /\ HasOrWord(text) /\ ~HasAndWord(text) /\ result # NoTree)
    => result.kind = "or"

(***************************************************************************)
(* C23.  No leaf is made up.                                               *)
(***************************************************************************)
\* C23: every leaf of a tree parse returns is a course code extracted from
\* the full cleaned text; joining the text before and after a parenthesised
\* group produces no other leaf.
C23_LeavesExtracted ==
  (Returned /\ result # NoTree)
    => LET leaves == LeafCodes(result)
       IN  \A j \in 1..Len(leaves) : \E k \in 1..Len(courses) : courses[k] = leaves[j]

(***************************************************************************)
(* C24.  DeduplicationPipeline keeps the first occurrence.                 *)
(***************************************************************************)
\* the keys of the items handed in before call i
EarlierKeys(i) == {ItemKey(dedup_calls[j].item) : j \in 1..(i - 1)}

\* C24: over the calls of process_item on one instance, an item is returned
\* exactly when no earlier item had its (university, course_id), every later
\* item with that key raises DropItem, and the seen keys are the keys of all
\* the items handed in so far (so the set only grows).
C24_FirstOccurrenceKept ==
  /\ \A i \in 1..Len(dedup_calls) :
       /\ dedup_calls[i].outcome \in {"returned", "DropItem"}
       /\ dedup_calls[i].outcome = "returned"
            <=> ItemKey(dedup_calls[i].item) \notin EarlierKeys(i)
  /\ seen_courses = EarlierKeys(Len(dedup_calls) + 1)

C24_Witness ==
  /\ Len(dedup_calls) = 3
  /\ dedup_calls[1].outcome = "returned"
  /\ dedup_calls[2].outcome = "DropItem"
  /\ dedup_calls[3].outcome = "returned"
  /\ dedup_calls[1].item # dedup_calls[2].item
  /\ Cardinality(seen_courses) = 2

(***************************************************************************)
(* C25.  ValidationPipeline lets only valid courses through.               *)
(***************************************************************************)
\* C25: every item ValidationPipeline.process_item returns is a Course for
\* which validate() reports no error, and an item that fails validation is
\* not returned to the later pipeline stages.
C25_OnlyValidReturned ==
  validation_call.outcome = "returned"
    => /\ validation_call.returned.is_course
       /\ Validate(validation_call.returned) = <<>>

(***************************************************************************)
(* C26, C27.  What check_for_changes returns and stores.                   *)
(***************************************************************************)
\* the last call is check_for_changes and its fetch succeeded / failed
CheckedFetched == refresh_call.op = "check_for_changes" /\ refresh_call.fetched # "failed"

CheckedFailed == refresh_call.op = "check_for_changes" /\ refresh_call.fetched = "failed"

\* the snapshot of the university of the last call
CalledSnapshot == detector.snapshots[refresh_call.university]

\* the last check was skipped as 'checked recently'
Skipped == refresh_call.reason = "Checked recently - skipping"

\* C26: with a successful fetch, the first check_for_changes of a university
\* returns true and stores a snapshot with the fetched hash; a later check
\* that is not skipped returns true exactly when the fetched hash differs from
\* the stored one, and the fetched hash is then the stored one; a forced check
\* repeated on unchanged content returns false.
C26_ChangeDetected ==
  CheckedFetched =>
    /\ ~refresh_call.has_snapshot
         => /\ refresh_call.has_changed
            /\ CalledSnapshot.present
            /\ CalledSnapshot.content_hash = refresh_call.fetched
            /\ stored_file.exists
            /\ stored_file.data = detector.snapshots
    /\ (refresh_call.has_snapshot /\ ~Skipped)
         => /\ refresh_call.has_changed <=> refresh_call.fetched # refresh_call.stored_hash
            /\ CalledSnapshot.content_hash = refresh_call.fetched
            /\ stored_file.data = detector.snapshots
    /\ (refresh_call.has_snapshot /\ refresh_call.force
          /\ refresh_call.fetched = refresh_call.stored_hash)
         => ~refresh_call.has_changed

C26_Witness ==
  /\ CheckedFetched /\ refresh_call.has_snapshot /\ ~Skipped
  /\ refresh_call.fetched # refresh_call.stored_hash
  /\ refresh_call.has_changed
  /\ CalledSnapshot.content_hash = refresh_call.fetched
  /\ CalledSnapshot.last_updated > 0

\* C27: check_for_changes returns false and leaves the snapshots (in the
\* instance and in the file) as they were when the fetch fails, and when a
\* check that is not forced comes less than one hour after the previous
\* check; a forced check is never skipped.
C27_FailedOrRecentKept ==
  /\ CheckedFailed => (~refresh_call.has_changed /\ refresh_call.kept)
  /\ (CheckedFetched /\ refresh_call.has_snapshot /\ ~refresh_call.force
        /\ refresh_call.since_check < OneHour)
       => (Skipped /\ ~refresh_call.has_changed /\ refresh_call.kept)
  /\ (CheckedFetched /\ refresh_call.force) => ~Skipped
  /\ (CheckedFetched /\ refresh_call.has_snapshot /\ refresh_call.force
        /\ refresh_call.fetched # refresh_call.stored_hash)
       => (refresh_call.has_changed /\ ~refresh_call.kept)

C27_Witness ==
  /\ CheckedFetched /\ refresh_call.has_snapshot /\ ~refresh_call.force
  /\ refresh_call.since_check < OneHour
  /\ refresh_call.fetched # refresh_call.stored_hash
  /\ ~refresh_call.has_changed /\ refresh_call.kept
  /\ CalledSnapshot.content_hash = refresh_call.stored_hash

(***************************************************************************)
(* C28.  A stale report and the scrape that follows it.                    *)
(***************************************************************************)
\* C28: once should_refresh has reported a catalog stale and update_snapshot
\* has recorded the scrape, should_refresh does not report it stale again
\* while the content is unchanged and the scrape is at most thirty days old.
C28_StaleClears ==
  (/\ refresh_call.op = "should_refresh"
   /\ scrape_log.recorded_at >= 0
   /\ now - scrape_log.recorded_at <= ThirtyDays)
    => refresh_call.reason # "Stale data"

(***************************************************************************)
(* C29.  ScraperRegistry round trip.                                       *)
(***************************************************************************)
\* C29: a register(cls) that succeeds stores cls under cls.name; get(cls.name)
\* then returns cls (the class registered last under that name), and
\* list_scrapers() contains cls.name.
C29_RegisterGetRoundTrip ==
  /\ (registry_call.op = "register" /\ ~registry_call.raised)
       => \E k \in 1..Len(scrapers) :
             scrapers[k] = [name |-> registry_call.name, cls |-> registry_call.cls]
  /\ registry_call.op = "get"
       => \A k \in 1..Len(scrapers) :
             scrapers[k].name = registry_call.name
               => registry_call.returned = scrapers[k].cls
  /\ registry_call.op = "list_scrapers"
       => \A k \in 1..Len(scrapers) :
             \E j \in 1..Len(registry_call.names) :
                registry_call.names[j] = scrapers[k].name

====
